---- MODULE Spec2Model ----
(***************************************************************************)
(* A model of the Dolthub pull-request client of                           *)
(* src/pr_manager/pr_manager.py: the transport wrapper                     *)
(* perform_api_operation, the read-modify-write update_pr, and the         *)
(* paginated generators list_prs and pull_pr_diff.                         *)
(*                                                                         *)
(* Response bodies are the concrete texts the upstream sends; json.loads   *)
(* and str.strip are modelled on those texts.  Python values are tagged    *)
(* records [type, v]; None is the record PyNone.                           *)
(***************************************************************************)
EXTENDS Integers, Sequences, FiniteSets, TLC

VARIABLES
    self,           \* the PRManager object: token, user_agent, graphql_url, allowed_status_codes
    op,             \* the public method the caller invoked
    args,           \* the arguments of that call
    pc,             \* position of the call (generator state for the paginated methods)
    locals,         \* the local variables of the running method
    requests,       \* every requests.post issued so far, oldest first
    received,       \* the replies the upstream gave to the running method, oldest first
    invocations,    \* number of perform_api_operation invocations so far
    json_loads_calls, \* number of json.loads calls so far
    outcome,        \* how the last perform_api_operation invocation ended
    result,         \* how the public method ended (return value or raised exception)
    yielded,        \* the items a generator has delivered to its consumer, oldest first
    remote          \* the pull request the upstream holds, where the model follows it

vars == <<self, op, args, pc, locals, requests, received, invocations,
          json_loads_calls, outcome, result, yielded, remote>>

-----------------------------------------------------------------------------
(* Bounds of the model *)

\* perform_api_operation invocations a caller makes in the transport specification
MaxCalls == 2

\* pages an upstream serves to one paginated sequence before the model stops it
MaxPages == 3

\* pages an upstream serves to each of two sequences consumed side by side
MaxPagesEach == 2

-----------------------------------------------------------------------------
(* Python values *)

PyNone == [type |-> "NoneType"]
PyStr(s) == [type |-> "str", v |-> s]
PyInt(n) == [type |-> "int", v |-> n]
PyList(q) == [type |-> "list", v |-> q]
PyDict(f) == [type |-> "dict", v |-> f]

EmptyDict == PyDict(<<>>)

\* how a call ends
Return(value) == [kind |-> "return", value |-> value]
Raise(exc, a) == [kind |-> "raise", exc |-> exc, args |-> a]
NoOutcome == [kind |-> "none"]

-----------------------------------------------------------------------------
(* Texts: response bodies and cursors *)

UPSTREAM_TIMEOUT == "upstream request timeout"

\* str.strip() on the texts of the model: leading and trailing whitespace removed
Strip(text) ==
    CASE text = "  upstream request timeout\n" -> "upstream request timeout"
      [] text = "upstream request timeout\n" -> "upstream request timeout"
      [] text = " " -> ""
      [] text = "\n" -> ""
      [] text = " mytable " -> "mytable"
      [] text = " 5 " -> "5"
      [] text = "  file-token\n" -> "file-token"
      [] text = "file-token\nsecond-line\n" -> "file-token\nsecond-line"
      [] OTHER -> text

\* bodies that are no pull request data: the unreachable literal (bare and
\* padded), texts that are not JSON, and JSON texts of every top-level type
PlainBodies ==
    { "upstream request timeout", "  upstream request timeout\n",
      "<html>502 Bad Gateway</html>", "",
      "5", "null", "\"errors\"", "\"ok\"", "[\"errors\"]", "[]",
      "{}", "{\"errors\": []}", "{\"data\": null, \"errors\": [{\"message\": \"boom\"}]}" }

\* json.loads on the plain bodies: <<text, decoded value>>; a text in no pair
\* is not JSON
PlainJson ==
    { <<"5", PyInt(5)>>,
      <<"null", PyNone>>,
      <<"\"errors\"", PyStr("errors")>>,
      <<"\"ok\"", PyStr("ok")>>,
      <<"[\"errors\"]", PyList(<<PyStr("errors")>>)>>,
      <<"[]", PyList(<<>>)>>,
      <<"{}", EmptyDict>>,
      <<"{\"errors\": []}", PyDict([errors |-> PyList(<<>>)])>>,
      <<"{\"data\": null, \"errors\": [{\"message\": \"boom\"}]}",
        PyDict([data |-> PyNone,
                errors |-> PyList(<<PyDict([message |-> PyStr("boom")])>>)])>> }


-----------------------------------------------------------------------------
(* Python operations the methods use *)

\* the Python expression value[key] for a str key
Subscript(value, key) ==
    CASE value.type = "dict" ->
           IF key \in DOMAIN value.v THEN Return(value.v[key]) ELSE Raise("KeyError", <<key>>)
      [] value.type \in {"list", "str"} ->
           Raise("TypeError", <<value.type \o " indices must be integers">>)
      [] OTHER ->
           Raise("TypeError", <<"'" \o value.type \o "' object is not subscriptable">>)

\* value[key1][key2]
Subscript2(value, key1, key2) ==
    LET a == Subscript(value, key1) IN
    IF a.kind = "raise" THEN a ELSE Subscript(a.value, key2)

\* str(n) for the pull request ids of the model
IntToStr(n) == CASE n = 7 -> "7" [] n = 12 -> "12"

\* the values Python does arithmetic on: bool is a subclass of int
IsNumber(value) == value.type \in {"int", "bool"}

\* the integer a number stands for: True is 1 and False is 0
Number(value) == IF value.type = "bool" THEN (IF value.v THEN 1 ELSE 0) ELSE value.v

\* int(s) for a Python value: the number a digit string denotes, the integer
\* of a number (1 and 0 for True and False), else an error
StrToInt(value) ==
    CASE value = PyStr("7") -> Return(PyInt(7))
      [] value = PyStr("12") -> Return(PyInt(12))
      [] value = PyStr(" 5 ") -> Return(PyInt(5))
      [] IsNumber(value) -> Return(PyInt(Number(value)))
      [] value.type = "str" -> Raise("ValueError", <<"invalid literal for int()">>)
      [] OTHER -> Raise("TypeError", <<"int() argument must be a string or a number">>)

\* the members of a set of dictionary keys, one after the other.  The for
\* loops of the methods subscript every item with a str key, which fails for
\* each key alike, so the order the keys are walked in is not observed.
RECURSIVE KeysOf(_)
KeysOf(keys) ==
    IF keys = {} THEN <<>>
    ELSE LET key == CHOOSE k \in keys : TRUE IN <<[type |-> "str", v |-> key]>> \o KeysOf(keys \ {key})

\* what  for item in value  walks: the elements of a list, the keys of a
\* dict, the characters of a str; any other value is not iterable
Iterate(value) ==
    CASE value.type = "list" -> Return(value.v)
      [] value.type = "dict" -> Return(KeysOf(DOMAIN value.v))
      [] value.type = "str" ->
           Return([i \in 1..Len(value.v) |-> [type |-> "str", v |-> SubSeq(value.v, i, i)]])
      [] OTHER -> Raise("TypeError", <<"'" \o value.type \o "' object is not iterable">>)

\* whether the value can be hashed, as a membership test in a dict needs:
\* a list and a dict cannot
Hashable(value) == value.type \notin {"list", "dict"}

\* bool(value)
PyBool(value) ==
    CASE value.type = "bool" -> value
      [] value.type = "NoneType" -> [type |-> "bool", v |-> FALSE]
      [] value.type = "int" -> [type |-> "bool", v |-> value.v # 0]
      [] value.type = "str" -> [type |-> "bool", v |-> value.v # ""]
      [] value.type = "list" -> [type |-> "bool", v |-> value.v # <<>>]
      [] OTHER -> [type |-> "bool", v |-> DOMAIN value.v # {}]

PyTrue == [type |-> "bool", v |-> TRUE]
PyFalse == [type |-> "bool", v |-> FALSE]

\* the JSON text of a string or null
JsonText(value) == IF value = PyNone THEN "null" ELSE "\"" \o value.v \o "\""

-----------------------------------------------------------------------------
(* Pull requests as the upstream reports them *)

RepoOwners == {"alice"}
RepoNames == {"corona"}
PullIds == {7, 12}

\* the three-part keys of the model
ItemKeys == [repo_owner : RepoOwners, repo_name : RepoNames, pr_id : PullIds]

\* state, title and description of a pull request held by the upstream
RemotePulls ==
    { [state |-> PyStr("Open"), title |-> PyStr("Old title"), description |-> PyStr("Old message")],
      [state |-> PyStr("Closed"), title |-> PyStr("Stale title"), description |-> PyNone],
      [state |-> PyStr("Merged"), title |-> PyStr(""), description |-> PyStr("")] }

\* the Pull object of the PullForPullDetails fragment, as JSON text
PullText(key, pull) ==
    "{\"_id\": \"repositoryOwners/" \o key.repo_owner \o "/repositories/" \o key.repo_name
      \o "/pulls/" \o IntToStr(key.pr_id) \o "\", \"pullId\": \"" \o IntToStr(key.pr_id)
      \o "\", \"state\": " \o JsonText(pull.state) \o ", \"title\": " \o JsonText(pull.title)
      \o ", \"description\": " \o JsonText(pull.description)
      \o ", \"fromBranchName\": \"fix\", \"fromBranchOwnerName\": \"bob\""
      \o ", \"fromBranchRepoName\": \"corona\", \"toBranchName\": \"master\""
      \o ", \"toBranchOwnerName\": \"" \o key.repo_owner \o "\", \"toBranchRepoName\": \""
      \o key.repo_name \o "\", \"creatorName\": \"bob\", \"isFork\": true}"

\* the same Pull object decoded
PullValue(key, pull) ==
    PyDict([ _id |-> PyStr("repositoryOwners/" \o key.repo_owner \o "/repositories/"
                            \o key.repo_name \o "/pulls/" \o IntToStr(key.pr_id)),
             pullId |-> PyStr(IntToStr(key.pr_id)),
             state |-> pull.state, title |-> pull.title, description |-> pull.description,
             fromBranchName |-> PyStr("fix"), fromBranchOwnerName |-> PyStr("bob"),
             fromBranchRepoName |-> PyStr("corona"), toBranchName |-> PyStr("master"),
             toBranchOwnerName |-> PyStr(key.repo_owner),
             toBranchRepoName |-> PyStr(key.repo_name),
             creatorName |-> PyStr("bob"), isFork |-> PyTrue ])

\* the body of a successful PullForPullDetailsQuery response and its decoding
LookupBody(key, pull) == "{\"data\": {\"pull\": " \o PullText(key, pull) \o "}}"
LookupValue(key, pull) == PyDict([data |-> PyDict([pull |-> PullValue(key, pull)])])

\* the body of a successful MergePull response and its decoding
MergeBody(key, pull) == "{\"data\": {\"mergePull\": " \o PullText(key, pull) \o "}}"
MergeValue(key, pull) == PyDict([data |-> PyDict([mergePull |-> PullValue(key, pull)])])

\* the body of a successful UpdatePullInfo response and its decoding
UpdateBody(key) ==
    "{\"data\": {\"updatePull\": {\"_id\": \"repositoryOwners/" \o key.repo_owner
      \o "/repositories/" \o key.repo_name \o "/pulls/" \o IntToStr(key.pr_id) \o "\"}}}"
UpdateValue(key) ==
    PyDict([data |-> PyDict([updatePull |->
        PyDict([_id |-> PyStr("repositoryOwners/" \o key.repo_owner \o "/repositories/"
                               \o key.repo_name \o "/pulls/" \o IntToStr(key.pr_id))])])])

\* a lookup answer whose pull is null: the upstream knows no such pull request
NoPullBody == "{\"data\": {\"pull\": null}}"
NoPullValue == PyDict([data |-> PyDict([pull |-> PyNone])])

PullJson ==
    {<<LookupBody(k, p), LookupValue(k, p)>> : k \in ItemKeys, p \in RemotePulls}
    \cup {<<MergeBody(k, p), MergeValue(k, p)>> : k \in ItemKeys, p \in RemotePulls}
    \cup {<<UpdateBody(k), UpdateValue(k)>> : k \in ItemKeys}
    \cup {<<NoPullBody, NoPullValue>>}

\* a lookup answer whose pullId is JSON true, and its decoding
FlagLookupBody(key) ==
    "{\"data\": {\"pull\": {\"_id\": \"repositoryOwners/" \o key.repo_owner \o "/repositories/"
      \o key.repo_name \o "/pulls/" \o IntToStr(key.pr_id) \o "\", \"pullId\": true"
      \o ", \"state\": \"Open\", \"title\": \"Old title\", \"description\": \"Old message\""
      \o ", \"fromBranchName\": \"fix\", \"fromBranchOwnerName\": \"bob\""
      \o ", \"fromBranchRepoName\": \"corona\", \"toBranchName\": \"master\""
      \o ", \"toBranchOwnerName\": \"" \o key.repo_owner \o "\", \"toBranchRepoName\": \""
      \o key.repo_name \o "\", \"creatorName\": \"bob\", \"isFork\": true}}}"

FlagLookupValue(key) ==
    PyDict([data |-> PyDict([pull |->
        PyDict([ _id |-> PyStr("repositoryOwners/" \o key.repo_owner \o "/repositories/"
                                \o key.repo_name \o "/pulls/" \o IntToStr(key.pr_id)),
                 pullId |-> PyTrue,
                 state |-> PyStr("Open"), title |-> PyStr("Old title"),
                 description |-> PyStr("Old message"),
                 fromBranchName |-> PyStr("fix"), fromBranchOwnerName |-> PyStr("bob"),
                 fromBranchRepoName |-> PyStr("corona"), toBranchName |-> PyStr("master"),
                 toBranchOwnerName |-> PyStr(key.repo_owner),
                 toBranchRepoName |-> PyStr(key.repo_name),
                 creatorName |-> PyStr("bob"), isFork |-> PyTrue ])])])

FlagLookupJson == {<<FlagLookupBody(k), FlagLookupValue(k)>> : k \in ItemKeys}

\* the pull requests the upstream holds once callers have written the title
\* "New title" or the description "New message" into one of RemotePulls
WrittenPulls ==
    UNION { { [state |-> p.state, title |-> t, description |-> d] :
                t \in {p.title, PyStr("New title")},
                d \in {p.description, PyStr("New message")} } : p \in RemotePulls }

WrittenJson == {<<LookupBody(k, p), LookupValue(k, p)>> : k \in ItemKeys, p \in WrittenPulls}

-----------------------------------------------------------------------------
(* Pages of the PullsForRepo listing as the upstream reports them *)

\* the decimal text of the numbers the model's bodies hold
NumText(n) ==
    CASE n = 86400000 -> "86400000" [] n = 1500 -> "1500" [] n = 3000 -> "3000"
      [] n = 0 -> "0" [] n = 2 -> "2" [] n = 3 -> "3" [] n = 4 -> "4" [] n = 5 -> "5"
      [] n = 7 -> "7" [] n = 10 -> "10" [] n = 20 -> "20" [] n = 1 -> "1"

\* the entries of a page: pullId, state, title, description, createdAt
Pr1 == [ pullId |-> PyStr("7"), state |-> PyStr("Open"), title |-> PyStr("Old title"),
         description |-> PyStr("Old message"), createdAt |-> PyInt(86400000) ]
Pr2 == [ pullId |-> PyStr("12"), state |-> PyStr("Closed"), title |-> PyStr("Stale title"),
         description |-> PyNone, createdAt |-> PyInt(1500) ]
\* an entry whose pullId is no number
PrBad == [ pullId |-> PyStr("seven"), state |-> PyStr("Open"), title |-> PyStr(""),
           description |-> PyStr(""), createdAt |-> PyInt(1500) ]

\* an entry whose pullId and createdAt are JSON true
PrFlag == [ pullId |-> PyTrue, state |-> PyStr("Open"),
            title |-> PyStr("Old title"), description |-> PyStr("Old message"),
            createdAt |-> PyTrue ]

\* the lists a page holds
PrLists == { <<>>, <<Pr1>>, <<Pr1, PrFlag>>, <<Pr2, PrBad>> }

\* the JSON text of true and false
BoolText(value) == IF value.v THEN "true" ELSE "false"

\* the cursor field of a page: absent, null, blank, or a token
Absent == [type |-> "absent"]
Cursors == {Absent, PyNone, PyStr(""), PyStr(" "), PyStr("tok-2")}

\* one entry of the PullForPullList fragment as JSON text, and decoded
PrText(pr) ==
    "{\"_id\": \"repositoryOwners/alice/repositories/corona/pulls/"
      \o (IF pr.pullId.type = "bool" THEN BoolText(pr.pullId) ELSE pr.pullId.v)
      \o "\", \"createdAt\": "
      \o (IF pr.createdAt.type = "bool" THEN BoolText(pr.createdAt) ELSE NumText(pr.createdAt.v))
      \o ", \"ownerName\": \"alice\", \"repoName\": \"corona\", \"pullId\": "
      \o (IF pr.pullId.type = "bool" THEN BoolText(pr.pullId) ELSE JsonText(pr.pullId))
      \o ", \"creatorName\": \"bob\", \"description\": " \o JsonText(pr.description)
      \o ", \"state\": " \o JsonText(pr.state) \o ", \"title\": " \o JsonText(pr.title) \o "}"

PrValue(pr) ==
    PyDict([ _id |-> PyStr("repositoryOwners/alice/repositories/corona/pulls/"
                             \o (IF pr.pullId.type = "bool" THEN BoolText(pr.pullId)
                                 ELSE pr.pullId.v)),
             createdAt |-> pr.createdAt, ownerName |-> PyStr("alice"),
             repoName |-> PyStr("corona"), pullId |-> pr.pullId,
             creatorName |-> PyStr("bob"), description |-> pr.description,
             state |-> pr.state, title |-> pr.title ])

\* the texts of a sequence joined by ", "
RECURSIVE JoinTexts(_)
JoinTexts(texts) ==
    IF texts = <<>> THEN ""
    ELSE IF Len(texts) = 1 THEN texts[1]
    ELSE texts[1] \o ", " \o JoinTexts(Tail(texts))

\* the pullId member of a CreatePullRequestWithForks answer: a number text, a
\* text that is no number, JSON true, or none
CreatedIds == {PyStr("7"), PyStr("seven"), PyTrue, Absent}

\* the body of a CreatePullRequestWithForks response and its decoding
CreateBody(id) ==
    "{\"data\": {\"createPullWithForks\": {"
      \o (IF id = Absent THEN ""
          ELSE "\"pullId\": " \o (IF id.type = "bool" THEN BoolText(id) ELSE JsonText(id)))
      \o "}}}"
CreateValue(id) ==
    PyDict([data |-> PyDict([createPullWithForks |->
        IF id = Absent THEN EmptyDict ELSE PyDict([pullId |-> id])])])

CreateJson == {<<CreateBody(id), CreateValue(id)>> : id \in CreatedIds}

\* the nextPageToken member of a page object, as JSON text
CursorText(cursor) ==
    IF cursor = Absent THEN "" ELSE ", \"nextPageToken\": " \o JsonText(cursor)

\* the body of a PullsForRepo page and its decoding
PullsBody(prs, cursor) ==
    "{\"data\": {\"pulls\": {\"list\": ["
      \o JoinTexts([i \in 1..Len(prs) |-> PrText(prs[i])]) \o "]" \o CursorText(cursor) \o "}}}"

PullsValue(prs, cursor) ==
    LET list == PyList([i \in 1..Len(prs) |-> PrValue(prs[i])]) IN
    PyDict([data |-> PyDict([pulls |->
        PyDict(IF cursor = Absent THEN [list |-> list]
               ELSE [list |-> list, nextPageToken |-> cursor])])])

PullsJson == {<<PullsBody(l, c), PullsValue(l, c)>> : l \in PrLists, c \in Cursors}

\* pages whose list member is no list of entries, each the list and the
\* cursor: an object and a text without members, a text of two characters,
\* and null
OddPages ==
    { <<EmptyDict, Absent>>, <<PyStr(""), PyStr("tok-2")>>,
      <<PyStr("ab"), Absent>>, <<PyNone, PyStr("tok-2")>> }

\* the JSON text of such a member
OddText(value) == IF value = EmptyDict THEN "{}" ELSE JsonText(value)

\* the body of a PullsForRepo page with such a list member, and its decoding
OddPullsBody(list, cursor) ==
    "{\"data\": {\"pulls\": {\"list\": " \o OddText(list) \o CursorText(cursor) \o "}}}"

OddPullsValue(list, cursor) ==
    PyDict([data |-> PyDict([pulls |->
        PyDict(IF cursor = Absent THEN [list |-> list]
               ELSE [list |-> list, nextPageToken |-> cursor])])])

OddPullsJson == {<<OddPullsBody(p[1], p[2]), OddPullsValue(p[1], p[2])>> : p \in OddPages}

\* pages of one entry whose cursor tells the listings of two consumers apart
TokenCursors == {Absent, PyStr("tok-2"), PyStr("tok-3")}

TokenJson == {<<PullsBody(<<Pr1>>, c), PullsValue(<<Pr1>>, c)>> : c \in TokenCursors}

-----------------------------------------------------------------------------
(* Pages of the PullDiffForTableList query as the upstream reports them *)

\* the rows of a table diff: each side is null or the display values of a row
Row1 == [added |-> PyList(<<"1", "x">>), deleted |-> PyNone]
Row2 == [added |-> PyList(<<"2", "y">>), deleted |-> PyList(<<"2", "z">>)]
Row3 == [added |-> PyNone, deleted |-> PyList(<<"3", "w">>)]

\* a table diff: the names of its new and old table (null for none), its
\* rows and the cursor of its row list
TableDiff(new, old, rows, cursor) ==
    [newTable |-> new, oldTable |-> old, rows |-> rows, cursor |-> cursor, defect |-> "none"]

\* the ways a table diff can be malformed: its rows lack the member deleted
\* and carry a value too many; the first of three values of the added side
\* lacks displayValue; the added side has a value more than the table has
\* columns; the name of the first column is a list
Defects == {"no_deleted", "no_display_value", "third_value", "list_column"}

\* the table with one row and a cursor, malformed in the given way
DefectDiff(defect) ==
    [ newTable |-> PyStr("MyTable"), oldTable |-> PyStr("MyTable"), rows |-> <<Row1>>,
      cursor |-> PyStr("tok-2"), defect |-> defect ]

\* the table lists a page holds: the table alone; the table dropped (old
\* name only) behind another table with a cursor of its own; the table
\* renamed, so that only its old name is the one asked for; the table
\* alone and malformed
DiffPages ==
    { <<TableDiff(PyStr("MyTable"), PyStr("MyTable"), rows, c)>> :
        rows \in {<<>>, <<Row1, Row2>>}, c \in {Absent, PyNone, PyStr(""), PyStr("tok-2")} }
    \cup
    { << TableDiff(PyStr("Other"), PyNone, <<Row3>>, PyStr("tok-other")),
         TableDiff(PyNone, PyStr("MyTable"), <<Row3>>, c) >> :
        c \in {Absent, PyStr(" "), PyStr("tok-2")} }
    \cup
    { <<TableDiff(PyStr("Renamed"), PyStr("MyTable"), <<Row1>>, PyStr("tok-other"))>> }
    \cup
    { <<DefectDiff(d)>> : d \in Defects }

ColumnNames == <<"id", "val">>

RowSideText(side) ==
    IF side = PyNone THEN "null"
    ELSE "{\"columnValues\": ["
           \o JoinTexts([i \in 1..Len(side.v) |-> "{\"displayValue\": \"" \o side.v[i] \o "\"}"])
           \o "]}"

RowSideValue(side) ==
    IF side = PyNone THEN PyNone
    ELSE PyDict([columnValues |->
           PyList([i \in 1..Len(side.v) |-> PyDict([displayValue |-> PyStr(side.v[i])])])])

\* a row of a table diff; in a malformed table the added side carries a
\* value more, the first of its values lacks displayValue, or the member
\* deleted is missing
RowText(row, defect) ==
    CASE defect = "no_deleted" ->
           "{\"added\": " \o RowSideText(PyList(Append(row.added.v, "y"))) \o "}"
      [] defect = "no_display_value" ->
           "{\"added\": {\"columnValues\": [{}, "
             \o JoinTexts([i \in 1..Len(row.added.v) |->
                              "{\"displayValue\": \"" \o row.added.v[i] \o "\"}"])
             \o "]}, \"deleted\": " \o RowSideText(row.deleted) \o "}"
      [] defect = "third_value" ->
           "{\"added\": " \o RowSideText(PyList(Append(row.added.v, "y")))
             \o ", \"deleted\": " \o RowSideText(row.deleted) \o "}"
      [] OTHER ->
           "{\"added\": " \o RowSideText(row.added)
             \o ", \"deleted\": " \o RowSideText(row.deleted) \o "}"

RowValue(row, defect) ==
    CASE defect = "no_deleted" ->
           PyDict([added |-> RowSideValue(PyList(Append(row.added.v, "y")))])
      [] defect = "no_display_value" ->
           PyDict([ added |-> PyDict([columnValues |->
                      PyList(<<EmptyDict>> \o RowSideValue(row.added).v.columnValues.v)]),
                    deleted |-> RowSideValue(row.deleted) ])
      [] defect = "third_value" ->
           PyDict([ added |-> RowSideValue(PyList(Append(row.added.v, "y"))),
                    deleted |-> RowSideValue(row.deleted) ])
      [] OTHER ->
           PyDict([added |-> RowSideValue(row.added), deleted |-> RowSideValue(row.deleted)])

\* the name member of a column; in a malformed table the first is a list
ColumnNameText(i, defect) ==
    IF defect = "list_column" /\ i = 1 THEN "[]" ELSE "\"" \o ColumnNames[i] \o "\""

ColumnNameValue(i, defect) ==
    IF defect = "list_column" /\ i = 1 THEN PyList(<<>>) ELSE PyStr(ColumnNames[i])

TableRefText(name) == IF name = PyNone THEN "null" ELSE "{\"tableName\": " \o JsonText(name) \o "}"

TableRefValue(name) == IF name = PyNone THEN PyNone ELSE PyDict([tableName |-> name])

TableDiffText(t) ==
    "{\"oldTable\": " \o TableRefText(t.oldTable) \o ", \"newTable\": " \o TableRefText(t.newTable)
      \o ", \"rowDiffColumns\": ["
      \o JoinTexts([i \in 1..Len(ColumnNames) |->
                       "{\"name\": " \o ColumnNameText(i, t.defect) \o "}"])
      \o "], \"rowDiffs\": {\"list\": ["
      \o JoinTexts([i \in 1..Len(t.rows) |-> RowText(t.rows[i], t.defect)]) \o "]"
      \o CursorText(t.cursor) \o "}}"

TableDiffValue(t) ==
    LET list == PyList([i \in 1..Len(t.rows) |-> RowValue(t.rows[i], t.defect)]) IN
    PyDict([ oldTable |-> TableRefValue(t.oldTable),
             newTable |-> TableRefValue(t.newTable),
             rowDiffColumns |->
               PyList([i \in 1..Len(ColumnNames) |->
                         PyDict([name |-> ColumnNameValue(i, t.defect)])]),
             rowDiffs |-> PyDict(IF t.cursor = Absent THEN [list |-> list]
                                 ELSE [list |-> list, nextPageToken |-> t.cursor]) ])

\* the body of a PullDiffForTableList page and its decoding
DiffBody(tables) ==
    "{\"data\": {\"pullCommitDiff\": {\"toOwnerName\": \"alice\", \"toRepoName\": \"corona\""
      \o ", \"toCommitId\": \"c0ffee\", \"fromOwnerName\": \"bob\", \"fromRepoName\": \"corona\""
      \o ", \"fromCommitId\": \"decaf\", \"tableDiffs\": ["
      \o JoinTexts([i \in 1..Len(tables) |-> TableDiffText(tables[i])]) \o "]}}}"

DiffValue(tables) ==
    PyDict([data |-> PyDict([pullCommitDiff |->
        PyDict([ toOwnerName |-> PyStr("alice"), toRepoName |-> PyStr("corona"),
                 toCommitId |-> PyStr("c0ffee"), fromOwnerName |-> PyStr("bob"),
                 fromRepoName |-> PyStr("corona"), fromCommitId |-> PyStr("decaf"),
                 tableDiffs |-> PyList([i \in 1..Len(tables) |-> TableDiffValue(tables[i])])
               ])])])

DiffJson == {<<DiffBody(t), DiffValue(t)>> : t \in DiffPages}

-----------------------------------------------------------------------------
(* Responses of the PullDetailsForPullDetails query as the upstream reports them *)

\* the JSON text of a string, a number, true, false, an empty list or null
ScalarText(value) ==
    CASE value.type = "int" -> NumText(value.v)
      [] value.type = "bool" -> BoolText(value)
      [] value.type = "list" -> "[]"
      [] OTHER -> JsonText(value)

\* an entry of the details list: its members in the order they are sent,
\* each a pair <<name, value>>
CommentEntry ==
    << <<"_id", PyStr("details/1")>>, <<"authorName", PyStr("bob")>>,
       <<"comment", PyStr("Looks good")>>, <<"createdAt", PyInt(1500)>>,
       <<"updatedAt", PyInt(3000)>>, <<"__typename", PyStr("PullDetailComment")>> >>
CommitEntry ==
    << <<"_id", PyStr("details/2")>>, <<"username", PyStr("bob")>>,
       <<"message", PyStr("Fix rows")>>, <<"createdAt", PyInt(86400000)>>,
       <<"commitId", PyStr("c0ffee")>>, <<"parentCommitId", PyStr("decaf")>>,
       <<"__typename", PyStr("PullDetailCommit")>> >>
SummaryEntry ==
    << <<"_id", PyStr("details/3")>>, <<"username", PyStr("bob")>>,
       <<"createdAt", PyInt(1500)>>, <<"numCommits", PyInt(3)>>,
       <<"__typename", PyStr("PullDetailSummary")>> >>
LogEntry ==
    << <<"_id", PyStr("details/4")>>, <<"username", PyStr("alice")>>,
       <<"createdAt", PyInt(3000)>>, <<"activity", PyStr("Closed")>>,
       <<"__typename", PyStr("PullDetailLog")>> >>
\* entries of kinds the client does not know, with the common members only:
\* a new upstream tag, and tags that read like the client's own type names
ReviewEntry ==
    << <<"_id", PyStr("details/5")>>, <<"createdAt", PyInt(1500)>>,
       <<"__typename", PyStr("PullDetailReview")>> >>
PlainCommentEntry ==
    << <<"_id", PyStr("details/6")>>, <<"createdAt", PyInt(1500)>>,
       <<"__typename", PyStr("Comment")>> >>
PlainLogEntry ==
    << <<"_id", PyStr("details/7")>>, <<"createdAt", PyInt(3000)>>,
       <<"username", PyStr("bob")>>, <<"__typename", PyStr("Log")>> >>
\* a commit entry the upstream sent without its parent
OrphanCommitEntry ==
    << <<"_id", PyStr("details/8")>>, <<"username", PyStr("bob")>>,
       <<"message", PyStr("Initial")>>, <<"createdAt", PyInt(1500)>>,
       <<"commitId", PyStr("c0ffee")>>, <<"__typename", PyStr("PullDetailCommit")>> >>

\* a comment whose createdAt is JSON true and whose updatedAt is JSON false
FlagCommentEntry ==
    << <<"_id", PyStr("details/9")>>, <<"authorName", PyStr("bob")>>,
       <<"comment", PyStr("Looks good")>>, <<"createdAt", PyTrue>>,
       <<"updatedAt", PyFalse>>,
       <<"__typename", PyStr("PullDetailComment")>> >>
\* an entry whose tag is a list
ListTagEntry ==
    << <<"_id", PyStr("details/10")>>, <<"createdAt", PyInt(1500)>>,
       <<"__typename", PyList(<<>>)>> >>

\* the details lists a response holds
DetailLists ==
    { <<>>, <<CommentEntry, CommitEntry>>, <<SummaryEntry, LogEntry>>,
      <<CommitEntry, ReviewEntry, CommentEntry>>, <<LogEntry, PlainCommentEntry>>,
      <<PlainLogEntry, ReviewEntry>>, <<OrphanCommitEntry>>,
      <<FlagCommentEntry>>, <<CommentEntry, ListTagEntry>> }

\* an entry as JSON text, and decoded
EntryText(entry) ==
    "{" \o JoinTexts([i \in 1..Len(entry) |->
                        "\"" \o entry[i][1] \o "\": " \o ScalarText(entry[i][2])]) \o "}"

EntryValue(entry) ==
    PyDict([ name \in {entry[i][1] : i \in 1..Len(entry)} |->
               (CHOOSE pair \in {entry[i] : i \in 1..Len(entry)} : pair[1] = name)[2] ])

\* the body of a PullDetailsForPullDetails response and its decoding; cursor
\* is a nextPageToken member put next to the details
DetailsBody(entries, cursor) ==
    "{\"data\": {\"pull\": {\"_id\": \"repositoryOwners/alice/repositories/corona/pulls/7\""
      \o ", \"fromBranchName\": \"fix\", \"toBranchName\": \"master\", \"details\": ["
      \o JoinTexts([i \in 1..Len(entries) |-> EntryText(entries[i])]) \o "]"
      \o CursorText(cursor) \o "}}}"

DetailsValue(entries, cursor) ==
    PyDict([data |-> PyDict([pull |-> PyDict(
        (IF cursor = Absent THEN <<>> ELSE [nextPageToken |-> cursor])
        @@ [ _id |-> PyStr("repositoryOwners/alice/repositories/corona/pulls/7"),
             fromBranchName |-> PyStr("fix"), toBranchName |-> PyStr("master"),
             details |-> PyList([i \in 1..Len(entries) |-> EntryValue(entries[i])]) ])])])

DetailsCursors == {Absent, PyStr("tok-2")}

DetailsJson == {<<DetailsBody(e, c), DetailsValue(e, c)>> : e \in DetailLists, c \in DetailsCursors}

\* details members that are no list of entries
OddDetails == {EmptyDict, PyStr(""), PyStr("ab"), PyNone}

\* the body of a response with such a details member, and its decoding
OddDetailsBody(details) ==
    "{\"data\": {\"pull\": {\"_id\": \"repositoryOwners/alice/repositories/corona/pulls/7\""
      \o ", \"fromBranchName\": \"fix\", \"toBranchName\": \"master\", \"details\": "
      \o OddText(details) \o "}}}"

OddDetailsValue(details) ==
    PyDict([data |-> PyDict([pull |-> PyDict(
        [ _id |-> PyStr("repositoryOwners/alice/repositories/corona/pulls/7"),
          fromBranchName |-> PyStr("fix"), toBranchName |-> PyStr("master"),
          details |-> details ])])])

OddDetailsJson == {<<OddDetailsBody(d), OddDetailsValue(d)>> : d \in OddDetails}

-----------------------------------------------------------------------------
(* Responses of the DiffSummaryAsync query *)

\* the diffSummary object of a response, its members in the order sent
DiffSummary(rowCount, rowsModified, rowsUnmodified, rowsAdded, cellsModified) ==
    << <<"rowCount", PyInt(rowCount)>>, <<"rowsModified", PyInt(rowsModified)>>,
       <<"rowsUnmodified", PyInt(rowsUnmodified)>>, <<"rowsAdded", PyInt(rowsAdded)>>,
       <<"rowsDeleted", PyInt(0)>>, <<"cellCount", PyInt(20)>>,
       <<"cellsModified", cellsModified>> >>

\* a summary the upstream sent without its cell count
ShortSummary ==
    << <<"rowCount", PyInt(10)>>, <<"rowsModified", PyInt(3)>>,
       <<"rowsUnmodified", PyInt(7)>>, <<"rowsAdded", PyInt(0)>>,
       <<"rowsDeleted", PyInt(0)>>, <<"cellsModified", PyInt(5)>> >>

\* the summaries a response holds: the unmodified row count is the upstream's
\* own figure, equal to rowCount - rowsModified or not
DiffSummaries ==
    { DiffSummary(rc, rm, ru, ra, cm) :
        rc \in {10, 2}, rm \in {3, 0}, ru \in {7, 4, 2}, ra \in {0, 1},
        cm \in {PyInt(5), PyNone, PyTrue} }
    \cup {ShortSummary}

\* the body of a DiffSummaryAsync response and its decoding
SummaryBody(summary) ==
    "{\"data\": {\"diffSummaryAsync\": {\"diffSummary\": " \o EntryText(summary) \o "}}}"

SummaryValue(summary) ==
    PyDict([data |-> PyDict([diffSummaryAsync |->
        PyDict([diffSummary |-> EntryValue(summary)])])])

NoSummaryBody == "{\"data\": {\"diffSummaryAsync\": null}}"
NoSummaryValue == PyDict([data |-> PyDict([diffSummaryAsync |-> PyNone])])

SummaryJson ==
    {<<SummaryBody(s), SummaryValue(s)>> : s \in DiffSummaries}
    \cup {<<NoSummaryBody, NoSummaryValue>>}

-----------------------------------------------------------------------------
(* json.loads and the membership test *)

JsonTable ==
    PlainJson \cup PullJson \cup FlagLookupJson \cup CreateJson \cup WrittenJson
      \cup PullsJson \cup OddPullsJson \cup TokenJson
      \cup DiffJson
      \cup DetailsJson \cup OddDetailsJson
      \cup SummaryJson

\* json.loads(text): the decoded value, or ValueError for a text that is not JSON
JsonLoads(text) ==
    LET Decoded(documents) ==
            IF documents = {} THEN Raise("ValueError", <<"Expecting value">>)
            ELSE Return((CHOOSE p \in documents : TRUE)[2]) IN
    Decoded({p \in JsonTable : p[1] = text})

\* the Python expression  key in value  for a str key: key membership for a
\* dict, element membership for a list, substring test for a str, and a
\* TypeError for a value that is not iterable.  The only str values of the
\* model that contain a key are the keys themselves.
KeyIn(key, value) ==
    CASE value.type = "dict" -> Return(key \in DOMAIN value.v)
      [] value.type = "list" -> Return(\E i \in 1..Len(value.v) : value.v[i] = PyStr(key))
      [] value.type = "str" -> Return(value.v = key)
      [] OTHER -> Raise("TypeError", <<"argument of type '" \o value.type \o "' is not iterable">>)

\* "errors" in value
ErrorsIn(value) == KeyIn("errors", value)

-----------------------------------------------------------------------------
(* The transport: PRManager.perform_api_operation *)

GraphqlUrl == "https://www.dolthub.com/graphql"
DefaultUserAgent == "Alexis' Private API Client For Bounties"

\* an allow-set without the teapot code
AllowedStatusCodesNoTeapot == {200, 301, 302}

AllowedStatusCodes == {200, 301, 302, 418}

\* the status codes an upstream answers with in the model
StatusCodes == {200, 301, 302, 418, 404, 500}

MsgUnreachable == "GraphQL API Cannot Contact Upstream Right Now. Please Try Again Later!"
MsgNonJson == "GraphQL sent a non-JSON Response!"
MsgStatus == "GraphQL API threw a HTTP Status Code exception"
MsgErrors == "GraphQL API threw an exception"

\* the object after __init__ took the token given directly
NewPRManager(token) ==
    [ token |-> token, user_agent |-> DefaultUserAgent, graphql_url |-> GraphqlUrl,
      allowed_status_codes |-> AllowedStatusCodes ]

\* the arguments of the requests.post call
PostCall(this, graphql_query) ==
    [ url |-> this.graphql_url, json |-> graphql_query,
      headers |-> [UserAgent |-> this.user_agent, Cookie |-> "dolthubToken=" \o this.token] ]

\* what requests.post gives back: a response, or an exception of the HTTP library
HttpResponse(text, status_code) ==
    [kind |-> "response", response |-> [text |-> text, status_code |-> status_code]]
HttpFailure == [kind |-> "error", exc |-> "ConnectionError"]

\* the unreachable test made only for a response with a disallowed status
IsUnreachableOnBadStatus(response) ==
    Strip(response.text) = UPSTREAM_TIMEOUT /\ response.status_code \notin AllowedStatusCodes

\* the test for the literal the upstream sends when it cannot reach its backend
IsUnreachable(response) == Strip(response.text) = UPSTREAM_TIMEOUT

\* the four errors perform_api_operation raises itself
UnreachableError(response) ==
    Raise("APIServerException",
          <<MsgUnreachable, PyStr(response.text), response.status_code, response>>)

NonJsonError(response) ==
    Raise("APIServerException",
          <<MsgNonJson, PyStr(response.text), response.status_code, response>>)

StatusError(res, response) ==
    Raise("APIServerException", <<MsgStatus, res, response.status_code, response>>)

ApplicationError(res, response) ==
    Raise("APIServerException", <<MsgErrors, res, response.status_code, response>>)

\* a classification that looks for the error list before the status code
ClassifyErrorsFirst(this, response) ==
    IF IsUnreachable(response)
    THEN [decoded |-> FALSE, outcome |-> UnreachableError(response)]
    ELSE LET loaded == JsonLoads(response.text) IN
         IF loaded.kind = "raise"
         THEN [decoded |-> TRUE, outcome |-> NonJsonError(response)]
         ELSE LET res == loaded.value
                  member == ErrorsIn(res) IN
              IF member.kind = "raise"
              THEN [decoded |-> TRUE, outcome |-> member]
              ELSE IF member.value
              THEN [decoded |-> TRUE, outcome |-> ApplicationError(res, response)]
              ELSE IF response.status_code \notin this.allowed_status_codes
              THEN [decoded |-> TRUE, outcome |-> StatusError(res, response)]
              ELSE [ decoded |-> TRUE,
                     outcome |-> Return(<<res, response.status_code, response>>) ]

\* the classification of an obtained response, in the order of the code;
\* decoded tells whether json.loads was called
Classify(this, response) ==
    IF IsUnreachable(response)
    THEN [decoded |-> FALSE, outcome |-> UnreachableError(response)]
    ELSE LET loaded == JsonLoads(response.text) IN
         IF loaded.kind = "raise"
         THEN [decoded |-> TRUE, outcome |-> NonJsonError(response)]
         ELSE LET res == loaded.value IN
              IF response.status_code \notin this.allowed_status_codes
              THEN [decoded |-> TRUE, outcome |-> StatusError(res, response)]
              ELSE LET member == ErrorsIn(res) IN
                   IF member.kind = "raise"
                   THEN [decoded |-> TRUE, outcome |-> member]
                   ELSE IF member.value
                   THEN [decoded |-> TRUE, outcome |-> ApplicationError(res, response)]
                   ELSE [ decoded |-> TRUE,
                          outcome |-> Return(<<res, response.status_code, response>>) ]

\* an invocation that posts again after a failure
PostsRetried(this, graphql_query, reply) ==
    IF reply.kind = "error" \/ reply.response.status_code \notin this.allowed_status_codes
    THEN <<PostCall(this, graphql_query), PostCall(this, graphql_query)>>
    ELSE <<PostCall(this, graphql_query)>>

\* the requests.post calls one invocation issues, given the upstream's reply
Posts(this, graphql_query, reply) == <<PostCall(this, graphql_query)>>

\* one invocation of perform_api_operation against an upstream that answers
\* reply: the posts issued, whether json.loads ran, and how the invocation ends
PerformApiOperation(this, graphql_query, reply) ==
    IF reply.kind = "error"
    THEN [ sent |-> Posts(this, graphql_query, reply), decoded |-> FALSE,
           outcome |-> Raise(reply.exc, <<>>) ]
    ELSE LET c == Classify(this, reply.response) IN
         [ sent |-> Posts(this, graphql_query, reply), decoded |-> c.decoded,
           outcome |-> c.outcome ]

-----------------------------------------------------------------------------
(* perform_api_operation of the earlier revision, src/pr_manager.py *)

\* a classification of the earlier revision that lets every status code pass
ClassifyEarlierAnyStatus(this, response) ==
    LET loaded == JsonLoads(response.text) IN
    IF loaded.kind = "raise"
    THEN [decoded |-> TRUE, outcome |-> loaded]
    ELSE LET res == loaded.value
             member == ErrorsIn(res) IN
         IF member.kind = "raise"
         THEN [decoded |-> TRUE, outcome |-> member]
         ELSE IF member.value
         THEN [decoded |-> TRUE, outcome |-> ApplicationError(res, response)]
         ELSE [decoded |-> TRUE, outcome |-> Return(<<res, response.status_code, response>>)]

\* the classification of an obtained response by the earlier revision: the
\* body goes to json.loads as it is, outside any try, so the JSONDecodeError
\* (a ValueError) of a text that is not JSON reaches the caller; then the
\* status code, then the error list
ClassifyEarlier(this, response) ==
    LET loaded == JsonLoads(response.text) IN
    IF loaded.kind = "raise"
    THEN [decoded |-> TRUE, outcome |-> Raise("JSONDecodeError", loaded.args)]
    ELSE LET res == loaded.value IN
         IF response.status_code \notin this.allowed_status_codes
         THEN [decoded |-> TRUE, outcome |-> StatusError(res, response)]
         ELSE LET member == ErrorsIn(res) IN
              IF member.kind = "raise"
              THEN [decoded |-> TRUE, outcome |-> member]
              ELSE IF member.value
              THEN [decoded |-> TRUE, outcome |-> ApplicationError(res, response)]
              ELSE [ decoded |-> TRUE,
                     outcome |-> Return(<<res, response.status_code, response>>) ]

\* one invocation of the earlier revision's perform_api_operation
PerformApiOperationEarlier(this, graphql_query, reply) ==
    IF reply.kind = "error"
    THEN [ sent |-> <<PostCall(this, graphql_query)>>, decoded |-> FALSE,
           outcome |-> Raise(reply.exc, <<>>) ]
    ELSE LET c == ClassifyEarlier(this, reply.response) IN
         [ sent |-> <<PostCall(this, graphql_query)>>, decoded |-> c.decoded,
           outcome |-> c.outcome ]

-----------------------------------------------------------------------------
(* __init__ *)

\* the paths of the file system at construction: a token file whose content
\* is padded with blanks, a file of two lines, a blank file and a directory;
\* every other path does not exist
FileSystem ==
    [ path \in {"token.txt", "lines.txt", "blank.txt", "tokens"} |->
        CASE path = "token.txt" -> [kind |-> "file", content |-> "  file-token\n"]
          [] path = "lines.txt" -> [kind |-> "file", content |-> "file-token\nsecond-line\n"]
          [] path = "blank.txt" -> [kind |-> "file", content |-> "\n"]
          [] path = "tokens" -> [kind |-> "directory"] ]

\* os.path.exists(path)
PathExists(path) == path \in DOMAIN FileSystem

\* open(path, mode="r").read()
ReadFile(path) ==
    IF FileSystem[path].kind = "directory"
    THEN Raise("IsADirectoryError", <<21, "Is a directory">>)
    ELSE Return(FileSystem[path].content)

MsgNoTokenFile == "The token file does not exist."
MsgNoToken ==
    "Cannot use authenticated functions without a token. Please provide the value from the dolthubToken cookie."

\* __init__ with the token file looked at whatever the token
ConstructFileFirst(token, token_file) ==
    IF token_file # PyNone /\ ~PathExists(token_file.v)
    THEN Raise("NoAuthException", <<MsgNoTokenFile>>)
    ELSE IF token # PyNone THEN Return(NewPRManager(token.v))
    ELSE IF token_file = PyNone THEN Raise("NoAuthException", <<MsgNoToken>>)
    ELSE IF ReadFile(token_file.v).kind = "raise" THEN ReadFile(token_file.v)
    ELSE Return(NewPRManager(Strip(ReadFile(token_file.v).value)))

\* __init__ with the content of the token file taken as it is
ConstructUnstripped(token, token_file) ==
    IF token = PyNone /\ token_file # PyNone
    THEN IF ~PathExists(token_file.v)
         THEN Raise("NoAuthException", <<MsgNoTokenFile>>)
         ELSE IF ReadFile(token_file.v).kind = "raise" THEN ReadFile(token_file.v)
         ELSE Return(NewPRManager(ReadFile(token_file.v).value))
    ELSE IF token # PyNone THEN Return(NewPRManager(token.v))
    ELSE Raise("NoAuthException", <<MsgNoToken>>)

\* PRManager(token, token_file): the object, or the error of the construction
Construct(token, token_file) ==
    IF token = PyNone /\ token_file # PyNone
    THEN IF ~PathExists(token_file.v)
         THEN Raise("NoAuthException", <<MsgNoTokenFile>>)
         ELSE IF ReadFile(token_file.v).kind = "raise" THEN ReadFile(token_file.v)
         ELSE Return(NewPRManager(Strip(ReadFile(token_file.v).value)))
    ELSE IF token # PyNone THEN Return(NewPRManager(token.v))
    ELSE Raise("NoAuthException", <<MsgNoToken>>)

-----------------------------------------------------------------------------
(* State shared by every specification *)

Tokens == {"secret-token"}

\* the upstream is arbitrary: the model does not follow what it holds
NoRemote == [kind |-> "none"]

\* a client constructed with a token, before any call
InitClient ==
    /\ self \in {NewPRManager(t) : t \in Tokens}
    /\ requests = <<>>
    /\ received = <<>>
    /\ invocations = 0
    /\ json_loads_calls = 0
    /\ outcome = NoOutcome
    /\ result = NoOutcome
    /\ yielded = <<>>
    /\ remote = NoRemote

\* the effect of one perform_api_operation invocation r on the observed state
Transport(r) ==
    /\ requests' = requests \o r.sent
    /\ invocations' = invocations + 1
    /\ json_loads_calls' = json_loads_calls + (IF r.decoded THEN 1 ELSE 0)
    /\ outcome' = r.outcome

-----------------------------------------------------------------------------
(* Specification SpecTransport: a caller uses perform_api_operation directly *)

RawQueries ==
    { [operationName |-> "PullsForRepo", variables |-> [ownerName |-> "alice", repoName |-> "corona"]],
      [operationName |-> "MergePull",
       variables |-> [ownerName |-> "alice", repoName |-> "corona", pullId |-> "7"]] }

\* every reply the upstream can give to a raw query
PlainReplies ==
    {HttpResponse(b, s) : b \in PlainBodies, s \in StatusCodes} \cup {HttpFailure}

InitTransport ==
    /\ InitClient
    /\ op = "perform_api_operation"
    /\ args = <<>>
    /\ pc = "ready"
    /\ locals = <<>>

\* the caller invokes perform_api_operation(graphql_query) and the upstream
\* answers reply
PerformCall ==
    /\ op = "perform_api_operation"
    /\ pc = "ready"
    /\ invocations < MaxCalls
    /\ \E q \in RawQueries, reply \in PlainReplies :
       \E r \in {PerformApiOperation(self, q, reply)} :
         /\ Transport(r)
         /\ args' = [graphql_query |-> q]
         /\ locals' = [reply |-> reply]
         /\ result' = r.outcome
    /\ UNCHANGED <<remote, self, op, pc, received, yielded>>

NextTransport == PerformCall

SpecTransport == InitTransport /\ [][NextTransport]_vars

-----------------------------------------------------------------------------
(* lookup_pr, update_pr and merge_pr *)

\* the request of lookup_pr
LookupQuery(key) ==
    [ operationName |-> "PullForPullDetailsQuery",
      variables |-> [ ownerName |-> key.repo_owner, repoName |-> key.repo_name,
                      pullId |-> IntToStr(key.pr_id) ] ]

\* the fields lookup_pr reads from the pull, in the order it reads them
LookupFields ==
    << "pullId", "state", "title", "description", "creatorName", "isFork",
       "fromBranchName", "fromBranchOwnerName", "fromBranchRepoName",
       "toBranchName", "toBranchOwnerName", "toBranchRepoName" >>

\* lookup_pr in simple mode on a decoded body: the simplified dictionary, or
\* the error of the first subscript or conversion that fails
LookupSimple(res) ==
    LET meta == Subscript2(res, "data", "pull") IN
    IF meta.kind = "raise" THEN meta
    ELSE LET pr_meta == meta.value
             id == Subscript(pr_meta, "pullId")
             missing == {i \in 1..Len(LookupFields) :
                            Subscript(pr_meta, LookupFields[i]).kind = "raise"} IN
         IF id.kind = "raise" THEN id
         ELSE IF StrToInt(id.value).kind = "raise" THEN StrToInt(id.value)
         ELSE IF missing # {}
         THEN Subscript(pr_meta, LookupFields[CHOOSE i \in missing : \A j \in missing : i <= j])
         ELSE Return(PyDict(
                [ id |-> StrToInt(id.value).value,
                  state |-> pr_meta.v.state,
                  title |-> pr_meta.v.title,
                  message |-> pr_meta.v.description,
                  creator |-> pr_meta.v.creatorName,
                  fork |-> PyBool(pr_meta.v.isFork),
                  source |-> PyDict([ branch |-> pr_meta.v.fromBranchName,
                                      owner |-> pr_meta.v.fromBranchOwnerName,
                                      repo |-> pr_meta.v.fromBranchRepoName ]),
                  destination |-> PyDict([ branch |-> pr_meta.v.toBranchName,
                                           owner |-> pr_meta.v.toBranchOwnerName,
                                           repo |-> pr_meta.v.toBranchRepoName ]) ]))

\* a guard that takes the empty message, not None, for the absent one
NoOptionalArgumentEmptyMessage(a) ==
    a.pr_state = PyNone /\ a.pr_title = PyNone /\ a.pr_message = PyStr("")

\* the guard of update_pr: none of the three optional arguments is given
NoOptionalArgument(a) ==
    a.pr_state = PyNone /\ a.pr_title = PyNone /\ a.pr_message = PyNone

MsgNeedArgument == "Specify at least one of pr_state, pr_title, or pr_message."

\* whether update_pr merges after updating
ShouldMerge(pr_state) == pr_state = PyStr("Merged")

\* "Merged" kept as the state to send
DeferredStateKept(pr_state) == pr_state

\* the state update_pr goes on with: "Merged" is not sent to the upstream
DeferredState(pr_state) == IF pr_state = PyStr("Merged") THEN PyNone ELSE pr_state

\* a lookup whatever the caller gave
NeedsLookupAlways(l) == TRUE

\* whether update_pr has to look the pull request up first
NeedsLookup(l) == l.pr_state = PyNone \/ l.pr_title = PyNone \/ l.pr_message = PyNone

\* a backfill that takes the looked-up title whether or not the caller gave one
BackfillTitleAlways(l, existing_values) ==
    [ l EXCEPT
        !.pr_state = IF l.pr_state = PyNone THEN existing_values.v.state ELSE l.pr_state,
        !.pr_title = existing_values.v.title,
        !.pr_message = IF l.pr_message = PyNone THEN existing_values.v.message
                       ELSE l.pr_message ]

\* a backfill that takes an empty message for an absent one
BackfillEmptyMessage(l, existing_values) ==
    [ l EXCEPT
        !.pr_state = IF l.pr_state = PyNone THEN existing_values.v.state ELSE l.pr_state,
        !.pr_title = IF l.pr_title = PyNone THEN existing_values.v.title ELSE l.pr_title,
        !.pr_message = IF l.pr_message \in {PyNone, PyStr("")} THEN existing_values.v.message
                       ELSE l.pr_message ]

\* a backfill that leaves the absent values absent
BackfillNothing(l, existing_values) == l

\* the values update_pr sends, after filling the absent ones from the lookup
Backfill(l, existing_values) ==
    [ l EXCEPT
        !.pr_state = IF l.pr_state = PyNone THEN existing_values.v.state ELSE l.pr_state,
        !.pr_title = IF l.pr_title = PyNone THEN existing_values.v.title ELSE l.pr_title,
        !.pr_message = IF l.pr_message = PyNone THEN existing_values.v.message
                       ELSE l.pr_message ]

\* the request of the update mutation
UpdateQuery(key, l) ==
    [ operationName |-> "UpdatePullInfo",
      variables |-> [ _id |-> "repositoryOwners/" \o key.repo_owner \o "/repositories/"
                              \o key.repo_name \o "/pulls/" \o IntToStr(key.pr_id),
                      state |-> l.pr_state, title |-> l.pr_title,
                      description |-> l.pr_message ] ]

\* the request of merge_pr
MergeQuery(key) ==
    [ operationName |-> "MergePull",
      variables |-> [ ownerName |-> key.repo_owner, repoName |-> key.repo_name,
                      pullId |-> IntToStr(key.pr_id) ] ]

\* the three-part key of a call
KeyOf(a) == [repo_owner |-> a.repo_owner, repo_name |-> a.repo_name, pr_id |-> a.pr_id]

-----------------------------------------------------------------------------
(* The pagination loop shared by the generators, and list_prs *)

\* value.strip() on a Python value
StrStrip(value) ==
    IF value.type = "str" THEN Return(PyStr(Strip(value.v)))
    ELSE Raise("AttributeError", <<"'" \o value.type \o "' object has no attribute 'strip'">>)

\* a cursor test that takes a cursor that is no string for the end of the listing
NextPageLenient(container) ==
    LET member == KeyIn("nextPageToken", container) IN
    IF member.kind = "raise" THEN member
    ELSE IF ~member.value THEN Return([has_next_page |-> FALSE, token |-> Absent])
    ELSE LET token == Subscript(container, "nextPageToken") IN
         IF token.kind = "raise" THEN token
         ELSE IF token.value.type # "str"
         THEN Return([has_next_page |-> FALSE, token |-> Absent])
         ELSE IF Strip(token.value.v) = ""
         THEN Return([has_next_page |-> FALSE, token |-> Absent])
         ELSE Return([has_next_page |-> TRUE, token |-> token.value])

\* a cursor test that does not strip: a whitespace-only cursor counts as a token
NextPageNoStrip(container) ==
    LET member == KeyIn("nextPageToken", container) IN
    IF member.kind = "raise" THEN member
    ELSE IF ~member.value THEN Return([has_next_page |-> FALSE, token |-> Absent])
    ELSE LET token == Subscript(container, "nextPageToken") IN
         IF token.kind = "raise" THEN token
         ELSE IF token.value.type # "str"
         THEN Raise("AttributeError", <<"object has no attribute 'strip'">>)
         ELSE IF token.value = PyStr("")
         THEN Return([has_next_page |-> FALSE, token |-> Absent])
         ELSE Return([has_next_page |-> TRUE, token |-> token.value])

\* the test for a next page on the object that holds the cursor: the loop
\* closes when nextPageToken is missing or blank, else the token is bound
NextPage(container) ==
    LET member == KeyIn("nextPageToken", container) IN
    IF member.kind = "raise" THEN member
    ELSE IF ~member.value THEN Return([has_next_page |-> FALSE, token |-> Absent])
    ELSE LET token == Subscript(container, "nextPageToken") IN
         IF token.kind = "raise" THEN token
         ELSE LET stripped == StrStrip(token.value) IN
              IF stripped.kind = "raise" THEN stripped
              ELSE IF stripped.value = PyStr("")
              THEN Return([has_next_page |-> FALSE, token |-> Absent])
              ELSE Return([has_next_page |-> TRUE, token |-> token.value])

\* graphql_query with its pageToken variable set
BindPageToken(graphql_query, token) ==
    [graphql_query EXCEPT !.variables = ("pageToken" :> token) @@ graphql_query.variables]

\* a first request that leaves the caller's starting cursor out
ListPrsQueryNoStart(a) ==
    [ operationName |-> "PullsForRepo",
      variables |-> [ownerName |-> a.repo_owner, repoName |-> a.repo_name] ]

\* the request list_prs starts with
ListPrsQuery(a) ==
    LET q == [ operationName |-> "PullsForRepo",
               variables |-> [ownerName |-> a.repo_owner, repoName |-> a.repo_name] ] IN
    IF a.page_token # PyNone THEN BindPageToken(q, a.page_token) ELSE q

\* datetime.fromtimestamp(value / 1000.0): seconds and milliseconds of the
\* epoch; a bool divides as the integer it is (True / 1000.0 is 0.001)
FromTimestamp(value) ==
    IF IsNumber(value)
    THEN Return([ type |-> "datetime", seconds |-> Number(value) \div 1000,
                  millis |-> Number(value) % 1000 ])
    ELSE Raise("TypeError", <<"unsupported operand type(s) for /">>)

\* the least index of fields whose key the dict pr lacks, 0 if none
FirstMissing(pr, fields) ==
    LET missing == {i \in 1..Len(fields) : Subscript(pr, fields[i]).kind = "raise"} IN
    IF missing = {} THEN 0 ELSE CHOOSE i \in missing : \A j \in missing : i <= j

\* the simplified dictionary list_prs yields for one entry of a page, or the
\* error of the first subscript or conversion that fails
SimplePr(pr) ==
    LET id == Subscript(pr, "pullId")
        before == <<"state", "title", "description", "creatorName", "createdAt">>
        after == <<"ownerName", "repoName">> IN
    IF id.kind = "raise" THEN id
    ELSE IF StrToInt(id.value).kind = "raise" THEN StrToInt(id.value)
    ELSE IF FirstMissing(pr, before) # 0 THEN Subscript(pr, before[FirstMissing(pr, before)])
    ELSE IF FromTimestamp(pr.v.createdAt).kind = "raise" THEN FromTimestamp(pr.v.createdAt)
    ELSE IF FirstMissing(pr, after) # 0 THEN Subscript(pr, after[FirstMissing(pr, after)])
    ELSE Return(PyDict(
           [ id |-> StrToInt(id.value).value,
             state |-> pr.v.state,
             title |-> pr.v.title,
             message |-> pr.v.description,
             creator |-> pr.v.creatorName,
             creation_date_unix |-> pr.v.createdAt,
             creation_date |-> FromTimestamp(pr.v.createdAt).value,
             owner |-> pr.v.ownerName,
             repo |-> pr.v.repoName ]))

\* a loop that stops when the upstream hands back the cursor it was asked with
ListPrsPageLoopDetected(l, simple, res, status_code) ==
    LET pulls == Subscript2(res, "data", "pulls") IN
    IF pulls.kind = "raise" THEN pulls
    ELSE LET next == NextPage(pulls.value) IN
         IF next.kind = "raise" THEN next
         ELSE LET more == /\ next.value.has_next_page
                          /\ ~( /\ "pageToken" \in DOMAIN l.graphql_query.variables
                                /\ l.graphql_query.variables.pageToken = next.value.token )
                  query == IF more THEN BindPageToken(l.graphql_query, next.value.token)
                           ELSE l.graphql_query
                  pr_list == Subscript(pulls.value, "list") IN
              IF ~simple
              THEN Return([ graphql_query |-> query, has_next_page |-> more,
                            items |-> <<[type |-> "tuple", v |-> <<res, status_code>>]>>,
                            index |-> 0 ])
              ELSE IF pr_list.kind = "raise" THEN pr_list
              ELSE IF Iterate(pr_list.value).kind = "raise" THEN Iterate(pr_list.value)
              ELSE Return([ graphql_query |-> query, has_next_page |-> more,
                            items |-> Iterate(pr_list.value).value, index |-> 0 ])

\* the body of the while loop of list_prs after a page arrived, up to the
\* first yield: the cursor test, the binding of the next token, and the list
\* to walk (the page itself when simple is off).  l is the generator's locals.
ListPrsPage(l, simple, res, status_code) ==
    LET pulls == Subscript2(res, "data", "pulls") IN
    IF pulls.kind = "raise" THEN pulls
    ELSE LET next == NextPage(pulls.value) IN
         IF next.kind = "raise" THEN next
         ELSE LET query == IF next.value.has_next_page
                           THEN BindPageToken(l.graphql_query, next.value.token)
                           ELSE l.graphql_query
                  pr_list == Subscript(pulls.value, "list") IN
              IF ~simple
              THEN Return([ graphql_query |-> query,
                            has_next_page |-> next.value.has_next_page,
                            items |-> <<[type |-> "tuple", v |-> <<res, status_code>>]>>,
                            index |-> 0 ])
              ELSE IF pr_list.kind = "raise" THEN pr_list
              ELSE IF Iterate(pr_list.value).kind = "raise" THEN Iterate(pr_list.value)
              ELSE Return([ graphql_query |-> query,
                            has_next_page |-> next.value.has_next_page,
                            items |-> Iterate(pr_list.value).value,
                            index |-> 0 ])

-----------------------------------------------------------------------------
(* pull_pr_diff *)

\* str.lower() on the table names of the model
Lower(text) ==
    CASE text = "MyTable" -> "mytable"
      [] text = "Renamed" -> "renamed"
      [] text = "Other" -> "other"
      [] text = "Nope" -> "nope"
      [] OTHER -> text

\* an argument check that only looks for a table name left out
NeedsTableNameNoneOnly(a) == a.table_name = PyNone /\ a.simple

\* the argument check of pull_pr_diff: simple mode needs a table name
NeedsTableName(a) == a.table_name.type # "str" /\ a.simple

MsgNeedTableName ==
    "The table_name argument is required for simple mode. Please specify the name of the table you want to view the diff for as a string. The variable is case sensitive."

MsgNotImplemented ==
    "Currently, only simple mode is implemented for this function, if you would like to parse the api response from GraphQL directly, please use the function, perform_api_operation, to perform the operation."

\* the request pull_pr_diff starts with
PullPrDiffQuery(a) ==
    LET q == [ operationName |-> "PullDiffForTableList",
               variables |-> [ ownerName |-> a.repo_owner, repoName |-> a.repo_name,
                               pullId |-> IntToStr(a.pr_id) ] ] IN
    IF a.page_token # PyNone THEN BindPageToken(q, a.page_token) ELSE q

\* the name a table diff goes by: the new table's, else the old table's,
\* else ""; or the error of the subscript that fails.  The old table is
\* looked at only when the new one gives no name.
CurrentTableName(table) ==
    IF Subscript(table, "newTable").kind = "raise" THEN Subscript(table, "newTable")
    ELSE IF table.v.newTable.type = "dict" /\ "tableName" \in DOMAIN table.v.newTable.v
    THEN Return(table.v.newTable.v.tableName)
    ELSE IF Subscript(table, "oldTable").kind = "raise" THEN Subscript(table, "oldTable")
    ELSE IF table.v.oldTable.type = "dict" /\ "tableName" \in DOMAIN table.v.oldTable.v
    THEN Return(table.v.oldTable.v.tableName)
    ELSE Return(PyStr(""))

\* the test of the for loop on one table: its name and table_name are equal
\* after strip() and lower(); a name that is no string has no strip()
IsDesiredTable(table, table_name) ==
    LET Compared(name) ==
            IF name.kind = "raise" THEN name
            ELSE IF name.value.type # "str"
            THEN Raise("AttributeError",
                       <<"'" \o name.value.type \o "' object has no attribute 'strip'">>)
            ELSE IF table_name.type # "str"
            THEN Raise("AttributeError",
                       <<"'" \o table_name.type \o "' object has no attribute 'strip'">>)
            ELSE Return(Lower(Strip(name.value.v)) = Lower(Strip(table_name.v))) IN
    Compared(CurrentTableName(table))

\* the search for the table: the position in tableDiffs (from 1) of the
\* first table whose name equals table_name after strip() and lower(), 0
\* for the code's -1, or the error of a table walked before a match.  The
\* tables behind the match are not looked at.
DesiredTableIndex(tableDiffs, table_name) ==
    LET First(stops) ==
            IF stops = {} THEN Return(0)
            ELSE IF IsDesiredTable(tableDiffs[CHOOSE i \in stops : \A j \in stops : i <= j],
                                   table_name).kind = "raise"
            THEN IsDesiredTable(tableDiffs[CHOOSE i \in stops : \A j \in stops : i <= j],
                                table_name)
            ELSE Return(CHOOSE i \in stops : \A j \in stops : i <= j) IN
    First({i \in 1..Len(tableDiffs) :
             \/ IsDesiredTable(tableDiffs[i], table_name).kind = "raise"
             \/ IsDesiredTable(tableDiffs[i], table_name).value})

\* the equality of two dict keys: equal values, an int and a bool being the
\* same key when they are the same number
SameKey(a, b) ==
    IF IsNumber(a) /\ IsNumber(b) THEN Number(a) = Number(b)
    ELSE a.type = b.type /\ a = b

\* a dict keyed by column names, which are any hashable values: the
\* function from its keys, themselves Python values, to its values
PyKeyed(f) == [type |-> "dict", v |-> f]

\* d[name] = value on the function d of a dict: a key already there keeps
\* its place and takes the value
SetItem(d, name, value) ==
    IF \E k \in DOMAIN d : SameKey(k, name)
    THEN [k \in DOMAIN d |-> IF SameKey(k, name) THEN value ELSE d[k]]
    ELSE [k \in DOMAIN d \cup {name} |-> IF SameKey(k, name) THEN value ELSE d[k]]

\* the walk over the values of one side of a row, counter values done and
\* simple built so far: for each value the column name at its position
\* (IndexError past the last column), its displayValue, and the assignment,
\* which hashes the name
RECURSIVE WalkValues(_, _, _, _)
WalkValues(values, columns_list, counter, simple) ==
    IF counter = Len(values) THEN Return(simple)
    ELSE IF counter >= Len(columns_list)
    THEN Raise("IndexError", <<"list index out of range">>)
    ELSE IF Subscript(values[counter + 1], "displayValue").kind = "raise"
    THEN Subscript(values[counter + 1], "displayValue")
    ELSE IF ~Hashable(columns_list[counter + 1])
    THEN Raise("TypeError", <<"unhashable type: '" \o columns_list[counter + 1].type \o "'">>)
    ELSE WalkValues(values, columns_list, counter + 1,
                    SetItem(simple, columns_list[counter + 1],
                            Subscript(values[counter + 1], "displayValue").value))

\* one side of a row (the value of its added or deleted member) as a dict
\* from column name to display value; None for a side that is no dict, has
\* no columnValues or null ones, or has no value
SimpleSide(side, columns_list) ==
    LET Built(simple) ==
            IF simple.kind = "raise" THEN simple
            ELSE IF DOMAIN simple.value = {} THEN Return(PyNone)
            ELSE Return(PyKeyed(simple.value))
        Walked(values) ==
            IF values.kind = "raise" THEN values
            ELSE Built(WalkValues(values.value, columns_list, 0, <<>>)) IN
    IF side.type = "dict" /\ "columnValues" \in DOMAIN side.v
                          /\ side.v.columnValues.type # "NoneType"
    THEN Walked(Iterate(side.v.columnValues))
    ELSE Return(PyNone)

\* the members of pullCommitDiff a simplified row repeats, in the order read
CommitMembers ==
    << "toOwnerName", "toRepoName", "toCommitId",
       "fromOwnerName", "fromRepoName", "fromCommitId" >>

\* the simplified dictionary pull_pr_diff yields for one row, or the error
\* of the first step that fails: the members added and deleted of the row,
\* the added side, the deleted side, then the members of pullCommitDiff
SimpleRow(row, columns_list, pr_meta) ==
    IF Subscript(row, "added").kind = "raise" THEN Subscript(row, "added")
    ELSE IF Subscript(row, "deleted").kind = "raise" THEN Subscript(row, "deleted")
    ELSE IF SimpleSide(row.v.added, columns_list).kind = "raise"
    THEN SimpleSide(row.v.added, columns_list)
    ELSE IF SimpleSide(row.v.deleted, columns_list).kind = "raise"
    THEN SimpleSide(row.v.deleted, columns_list)
    ELSE IF FirstMissing(pr_meta, CommitMembers) # 0
    THEN Subscript(pr_meta, CommitMembers[FirstMissing(pr_meta, CommitMembers)])
    ELSE Return(PyDict(
           [ added |-> SimpleSide(row.v.added, columns_list).value,
             deleted |-> SimpleSide(row.v.deleted, columns_list).value,
             source_repo_owner |-> pr_meta.v.toOwnerName,
             source_repo_name |-> pr_meta.v.toRepoName,
             source_commit_id |-> pr_meta.v.toCommitId,
             destination_repo_owner |-> pr_meta.v.fromOwnerName,
             destination_repo_name |-> pr_meta.v.fromRepoName,
             destination_commit_id |-> pr_meta.v.fromCommitId ]))

\* columns_list: the name member of every column of rowDiffColumns, in
\* their order, or the error of the first column that has none
ColumnsList(table_columns) ==
    LET Named(columns, unnamed) ==
            IF unnamed # {}
            THEN Subscript(columns[CHOOSE i \in unnamed : \A j \in unnamed : i <= j], "name")
            ELSE Return([i \in 1..Len(columns) |-> Subscript(columns[i], "name").value])
        Walked(columns) ==
            IF columns.kind = "raise" THEN columns
            ELSE Named(columns.value,
                       {i \in 1..Len(columns.value) :
                          Subscript(columns.value[i], "name").kind = "raise"}) IN
    Walked(Iterate(table_columns))

\* pull_pr_diff on the table it chose, up to the first yield: the cursor
\* test on the table's row list and the binding of the next token, the
\* members rowDiffColumns and rowDiffs.list, the column names and the rows
\* to walk.  l is the generator's locals.
PullPrDiffRows(l, pr_meta, table_meta) ==
    LET Walk(rowDiffs) ==
            IF rowDiffs.kind = "raise" THEN rowDiffs
            ELSE IF NextPage(rowDiffs.value).kind = "raise" THEN NextPage(rowDiffs.value)
            ELSE IF Subscript(table_meta, "rowDiffColumns").kind = "raise"
            THEN Subscript(table_meta, "rowDiffColumns")
            ELSE IF Subscript(rowDiffs.value, "list").kind = "raise"
            THEN Subscript(rowDiffs.value, "list")
            ELSE IF ColumnsList(table_meta.v.rowDiffColumns).kind = "raise"
            THEN ColumnsList(table_meta.v.rowDiffColumns)
            ELSE IF Iterate(rowDiffs.value.v.list).kind = "raise"
            THEN Iterate(rowDiffs.value.v.list)
            ELSE Return(
                   [ returned |-> FALSE,
                     locals |->
                       [ graphql_query |->
                           IF NextPage(rowDiffs.value).value.has_next_page
                           THEN BindPageToken(l.graphql_query,
                                              NextPage(rowDiffs.value).value.token)
                           ELSE l.graphql_query,
                         has_next_page |-> NextPage(rowDiffs.value).value.has_next_page,
                         items |-> Iterate(rowDiffs.value.v.list).value,
                         index |-> 0,
                         columns_list |-> ColumnsList(table_meta.v.rowDiffColumns).value,
                         pr_meta |-> pr_meta ] ]) IN
    Walk(Subscript(table_meta, "rowDiffs"))

\* a page body that, when the table asked for is not on the page, goes on
\* with the cursor of the first table of the page and no rows
PullPrDiffPageAnyCursor(l, table_name, res) ==
    LET Emptied(page) ==
            IF page.kind = "raise" THEN page
            ELSE Return([page.value EXCEPT !.locals.items = <<>>])
        Chosen(meta, tables, index) ==
            IF index.kind = "raise" THEN index
            ELSE IF index.value = 0 /\ tables = <<>> THEN Return([returned |-> TRUE])
            ELSE IF index.value = 0 THEN Emptied(PullPrDiffRows(l, meta, tables[1]))
            ELSE PullPrDiffRows(l, meta, tables[index.value])
        Searched(meta, tables) ==
            IF tables.kind = "raise" THEN tables
            ELSE Chosen(meta, tables.value, DesiredTableIndex(tables.value, table_name))
        Listed(meta) ==
            IF meta.kind = "raise" THEN meta
            ELSE IF Subscript(meta.value, "tableDiffs").kind = "raise"
            THEN Subscript(meta.value, "tableDiffs")
            ELSE Searched(meta.value, Iterate(meta.value.v.tableDiffs)) IN
    Listed(Subscript2(res, "data", "pullCommitDiff"))

\* the body of the while loop of pull_pr_diff in simple mode after a page
\* arrived, up to the first yield: the walk over tableDiffs in search of the
\* table, the return when there is none, and what follows on the table
\* chosen.  l is the generator's locals.
PullPrDiffPage(l, table_name, res) ==
    LET Chosen(meta, tables, index) ==
            IF index.kind = "raise" THEN index
            ELSE IF index.value = 0 THEN Return([returned |-> TRUE])
            ELSE PullPrDiffRows(l, meta, tables[index.value])
        Searched(meta, tables) ==
            IF tables.kind = "raise" THEN tables
            ELSE Chosen(meta, tables.value, DesiredTableIndex(tables.value, table_name))
        Listed(meta) ==
            IF meta.kind = "raise" THEN meta
            ELSE IF Subscript(meta.value, "tableDiffs").kind = "raise"
            THEN Subscript(meta.value, "tableDiffs")
            ELSE Searched(meta.value, Iterate(meta.value.v.tableDiffs)) IN
    Listed(Subscript2(res, "data", "pullCommitDiff"))

-----------------------------------------------------------------------------
(* list_pr_change_log *)

\* a request that carries the caller's page token
ListPrChangeLogQueryWithToken(a) ==
    LET q == [ operationName |-> "PullDetailsForPullDetails",
               variables |-> [ ownerName |-> a.repo_owner, repoName |-> a.repo_name,
                               pullId |-> IntToStr(a.pr_id) ] ] IN
    IF a.page_token # PyNone THEN BindPageToken(q, a.page_token) ELSE q

\* the one request of list_pr_change_log; page_token is not used
ListPrChangeLogQuery(a) ==
    [ operationName |-> "PullDetailsForPullDetails",
      variables |-> [ ownerName |-> a.repo_owner, repoName |-> a.repo_name,
                      pullId |-> IntToStr(a.pr_id) ] ]

\* entry_types: the upstream tags the client knows and its names for them
EntryTypes ==
    [ PullDetailComment |-> "Comment", PullDetailCommit |-> "Commit",
      PullDetailSummary |-> "Summary", PullDetailLog |-> "Log" ]

\* the type of the simplified entry: the client's name for a known tag,
\* else the tag as it came; the test whether entry_types has the tag hashes
\* it, which fails for a tag that is a list or a dict
EntryType(typename) ==
    IF ~Hashable(typename)
    THEN Raise("TypeError", <<"unhashable type: '" \o typename.type \o "'">>)
    ELSE IF typename.type = "str" /\ typename.v \in DOMAIN EntryTypes
    THEN Return(PyStr(EntryTypes[typename.v]))
    ELSE Return(typename)

\* the members read for an entry of the given type, in the order they are
\* read, each with the key it gets in the simplified entry
KindMembers(type) ==
    CASE type = PyStr("Comment") ->
           << <<"authorName", "user">>, <<"updatedAt", "updated_date_unix">>,
              <<"comment", "message">> >>
      [] type = PyStr("Commit") ->
           << <<"username", "user">>, <<"message", "message">>,
              <<"commitId", "current_commit_id">>, <<"parentCommitId", "previous_commit_id">> >>
      [] type = PyStr("Summary") -> << <<"username", "user">>, <<"numCommits", "commits">> >>
      [] type = PyStr("Log") -> << <<"username", "user">>, <<"activity", "state">> >>
      [] OTHER -> <<>>

\* the simplified dictionary list_pr_change_log yields for one entry, or the
\* error of the first subscript, membership test or conversion that fails:
\* the members _id and __typename, the test of the tag, the member createdAt
\* and its conversion, then the members of the entry's kind
SimpleEntry(entry) ==
    LET Built(common, type, members, first) ==
            IF common # 0
            THEN Subscript(entry, <<"_id", "__typename", "createdAt">>[common])
            ELSE IF FromTimestamp(entry.v.createdAt).kind = "raise"
            THEN FromTimestamp(entry.v.createdAt)
            ELSE IF /\ type = PyStr("Comment") /\ first \in {0, 3}
                    /\ FromTimestamp(entry.v.updatedAt).kind = "raise"
            THEN FromTimestamp(entry.v.updatedAt)
            ELSE IF first # 0 THEN Subscript(entry, members[first][1])
            ELSE Return(PyDict(
                   [ key \in {members[i][2] : i \in 1..Len(members)} |->
                       entry.v[(CHOOSE m \in {members[i] : i \in 1..Len(members)} :
                                  m[2] = key)[1]] ]
                   @@ (IF type = PyStr("Comment")
                       THEN [updated_date |-> FromTimestamp(entry.v.updatedAt).value]
                       ELSE <<>>)
                   @@ [ id |-> entry.v["_id"], type |-> type,
                        creation_date_unix |-> entry.v.createdAt,
                        creation_date |-> FromTimestamp(entry.v.createdAt).value ]))
        Typed(common, type) ==
            Built(common, type, KindMembers(type),
                  IF common = 0
                  THEN FirstMissing(entry, [i \in 1..Len(KindMembers(type)) |->
                                                KindMembers(type)[i][1]])
                  ELSE 0)
        Tagged(common, tag) ==
            IF common \in {1, 2} THEN Subscript(entry, <<"_id", "__typename">>[common])
            ELSE IF tag.kind = "raise" THEN tag
            ELSE Typed(common, tag.value) IN
    IF entry.type # "dict" THEN Subscript(entry, "_id")
    ELSE Tagged(FirstMissing(entry, <<"_id", "__typename", "createdAt">>),
                IF "__typename" \in DOMAIN entry.v THEN EntryType(entry.v["__typename"])
                ELSE Return(PyNone))

\* list_pr_change_log after its response arrived: the entries to walk (the
\* response itself when simple is off)
ListPrChangeLogPage(simple, res, status_code) ==
    IF ~simple THEN Return(<<[type |-> "tuple", v |-> <<res, status_code>>]>>)
    ELSE LET Entries(pull) ==
                 IF pull.kind = "raise" THEN pull
                 ELSE IF Subscript(pull.value, "details").kind = "raise"
                 THEN Subscript(pull.value, "details")
                 ELSE Iterate(Subscript(pull.value, "details").value) IN
         Entries(Subscript2(res, "data", "pull"))

-----------------------------------------------------------------------------
(* pull_pr_diff_summary *)

\* the request of pull_pr_diff_summary
DiffSummaryQuery(a) ==
    [ operationName |-> "DiffSummaryAsync",
      variables |-> [ initialReq |->
          [ fromRepoName |-> a.destination_repo_name,
            fromOwnerName |-> a.destination_repo_owner,
            toRepoName |-> a.source_repo_name,
            toOwnerName |-> a.source_repo_owner,
            fromCommitId |-> a.destination_commit_id,
            toCommitId |-> a.source_commit_id ] ] ]

\* a - b for two Python values: the difference of two numbers, a bool
\* counting as the integer it is, and an int whatever the operands
Minus(a, b) ==
    IF IsNumber(a) /\ IsNumber(b) THEN Return(PyInt(Number(a) - Number(b)))
    ELSE Raise("TypeError", <<"unsupported operand type(s) for -: '" \o a.type
                               \o "' and '" \o b.type \o "'">>)

\* the members of the summary in the order the dictionary display reads them
SummaryMembers ==
    << "rowCount", "rowsModified", "rowsUnmodified", "rowsAdded", "rowsDeleted",
       "cellCount", "cellsModified" >>

\* the simplified dictionary of a diffSummary object, or the error of the
\* first subscript or subtraction that fails
SimpleSummary(summary) ==
    IF FirstMissing(summary, SummaryMembers) # 0
    THEN Subscript(summary, SummaryMembers[FirstMissing(summary, SummaryMembers)])
    ELSE IF Minus(summary.v.cellCount, summary.v.cellsModified).kind = "raise"
    THEN Minus(summary.v.cellCount, summary.v.cellsModified)
    ELSE Return(PyDict(
           [ rows |-> PyDict([ count |-> summary.v.rowCount,
                               modified |-> summary.v.rowsModified,
                               unmodified |-> summary.v.rowsUnmodified,
                               added |-> summary.v.rowsAdded,
                               deleted |-> summary.v.rowsDeleted ]),
             cells |-> PyDict([ count |-> summary.v.cellCount,
                                modified |-> summary.v.cellsModified,
                                unmodified |->
                                  Minus(summary.v.cellCount, summary.v.cellsModified).value ]) ]))

\* what pull_pr_diff_summary does with the decoded response res
PullPrDiffSummaryResult(simple, res, status_code) ==
    IF ~simple THEN Return([type |-> "tuple", v |-> <<res, status_code>>])
    ELSE LET Summary(meta) ==
                 IF meta.kind = "raise" THEN meta
                 ELSE IF Subscript(meta.value, "diffSummary").kind = "raise"
                 THEN Subscript(meta.value, "diffSummary")
                 ELSE SimpleSummary(Subscript(meta.value, "diffSummary").value) IN
         Summary(Subscript2(res, "data", "diffSummaryAsync"))

-----------------------------------------------------------------------------
(* Specification SpecUpdate: one update_pr call against an arbitrary upstream *)

\* the values a caller gives for the optional arguments
StateArgs == {PyNone, PyStr("Open"), PyStr("Closed"), PyStr("Merged")}
TitleArgs == {PyNone, PyStr("New title")}
MessageArgs == {PyNone, PyStr("New message"), PyStr("")}

UpdateArgs ==
    [ repo_owner : RepoOwners, repo_name : RepoNames, pr_id : PullIds,
      pr_state : StateArgs, pr_title : TitleArgs, pr_message : MessageArgs ]

\* replies of an upstream in trouble: no response at all, the unreachable
\* literal, a body that is not JSON, JSON that is no object, an error list,
\* an object without data
FaultBodies ==
    { "upstream request timeout", "<html>502 Bad Gateway</html>", "null", "{}",
      "{\"data\": null, \"errors\": [{\"message\": \"boom\"}]}" }

FaultReplies == {HttpFailure} \cup {HttpResponse(b, s) : b \in FaultBodies, s \in {200, 500}}

LookupReplies(key) ==
    {HttpResponse(LookupBody(key, p), s) : p \in RemotePulls, s \in {200, 404}}
    \cup {HttpResponse(NoPullBody, 200)} \cup FaultReplies

MutationReplies(key) ==
    {HttpResponse(UpdateBody(key), s) : s \in {200, 418, 500}} \cup FaultReplies

MergeReplies(key) ==
    {HttpResponse(MergeBody(key, p), s) : p \in RemotePulls, s \in {200, 500}}
    \cup FaultReplies

InitUpdate ==
    /\ InitClient
    /\ op = "update_pr"
    /\ args \in UpdateArgs
    /\ pc = "start"
    /\ locals = <<>>

\* update_pr up to its first request: the argument check, the deferral of
\* "Merged", and the decision whether a lookup is needed
UpdatePrBegin ==
    /\ op = "update_pr"
    /\ pc = "start"
    /\ IF NoOptionalArgument(args)
       THEN /\ result' = Raise("NeedAtLeastOneOptionalArgumentException", <<MsgNeedArgument>>)
            /\ pc' = "done"
            /\ locals' = locals
       ELSE LET l == [ should_merge |-> ShouldMerge(args.pr_state),
                       pr_state |-> DeferredState(args.pr_state),
                       pr_title |-> args.pr_title,
                       pr_message |-> args.pr_message,
                       existing_values |-> PyNone,
                       update_result |-> PyNone ] IN
            /\ locals' = l
            /\ pc' = IF NeedsLookup(l) THEN "lookup" ELSE "update"
            /\ result' = result
    /\ UNCHANGED <<remote, self, op, args, requests, received, invocations, json_loads_calls,
                   outcome, yielded>>

\* the lookup_pr call of update_pr and the backfill of the absent values
UpdatePrLookup ==
    /\ op = "update_pr"
    /\ pc = "lookup"
    /\ \E reply \in LookupReplies(KeyOf(args)) :
       \E r \in {PerformApiOperation(self, LookupQuery(KeyOf(args)), reply)} :
       \E existing \in {IF r.outcome.kind = "return"
                         THEN LookupSimple(r.outcome.value[1])
                         ELSE r.outcome} :
         /\ Transport(r)
         /\ received' = Append(received, reply)
         /\ IF existing.kind = "raise"
            THEN /\ result' = existing
                 /\ pc' = "done"
                 /\ locals' = locals
            ELSE /\ locals' = [ Backfill(locals, existing.value)
                                  EXCEPT !.existing_values = existing.value ]
                 /\ pc' = "update"
                 /\ result' = result
    /\ UNCHANGED <<remote, self, op, args, yielded>>

\* a mutation step that goes on to the merge although the mutation failed
UpdatePrMutateThenMergeAnyway ==
    /\ op = "update_pr"
    /\ pc = "update"
    /\ \E reply \in MutationReplies(KeyOf(args)) :
       \E r \in {PerformApiOperation(self, UpdateQuery(KeyOf(args), locals), reply)} :
         /\ Transport(r)
         /\ received' = Append(received, reply)
         /\ IF locals.should_merge
            THEN /\ locals' = [ locals EXCEPT !.update_result = <<PyNone, 0>> ]
                 /\ pc' = "merge"
                 /\ result' = result
            ELSE /\ result' = IF r.outcome.kind = "raise" THEN r.outcome
                               ELSE Return(<<r.outcome.value[1], r.outcome.value[2]>>)
                 /\ pc' = "done"
                 /\ locals' = locals
    /\ UNCHANGED <<remote, self, op, args, yielded>>

\* the UpdatePullInfo mutation of update_pr
UpdatePrMutate ==
    /\ op = "update_pr"
    /\ pc = "update"
    /\ \E reply \in MutationReplies(KeyOf(args)) :
       \E r \in {PerformApiOperation(self, UpdateQuery(KeyOf(args), locals), reply)} :
         /\ Transport(r)
         /\ received' = Append(received, reply)
         /\ IF r.outcome.kind = "raise"
            THEN /\ result' = r.outcome
                 /\ pc' = "done"
                 /\ locals' = locals
            ELSE IF locals.should_merge
            THEN /\ locals' = [ locals EXCEPT
                                  !.update_result = <<r.outcome.value[1], r.outcome.value[2]>> ]
                 /\ pc' = "merge"
                 /\ result' = result
            ELSE /\ result' = Return(<<r.outcome.value[1], r.outcome.value[2]>>)
                 /\ pc' = "done"
                 /\ locals' = locals
    /\ UNCHANGED <<remote, self, op, args, yielded>>

\* the merge_pr call that ends an update_pr to "Merged"
UpdatePrMerge ==
    /\ op = "update_pr"
    /\ pc = "merge"
    /\ \E reply \in MergeReplies(KeyOf(args)) :
       \E r \in {PerformApiOperation(self, MergeQuery(KeyOf(args)), reply)} :
         /\ Transport(r)
         /\ received' = Append(received, reply)
         /\ result' = IF r.outcome.kind = "raise"
                      THEN r.outcome
                      ELSE Return(<< locals.update_result[1], locals.update_result[2],
                                     r.outcome.value[1], r.outcome.value[2] >>)
         /\ pc' = "done"
    /\ UNCHANGED <<remote, self, op, args, locals, yielded>>

NextUpdate == UpdatePrBegin \/ UpdatePrLookup \/ UpdatePrMutate \/ UpdatePrMerge

SpecUpdate == InitUpdate /\ [][NextUpdate]_vars

-----------------------------------------------------------------------------
(* Specification SpecPaging: a consumer draws from one list_prs or one      *)
(* pull_pr_diff generator against an arbitrary upstream.  pc is "created"  *)
(* before the first next(), "running" inside a next() call, "suspended" at *)
(* a yield, "exhausted" after the generator returned and "failed" after it *)
(* raised.                                                                 *)

ListPrsArgs ==
    [ repo_owner : RepoOwners, repo_name : RepoNames,
      page_token : {PyNone, PyStr("tok-1")}, simple : BOOLEAN ]

PullPrDiffArgs ==
    [ repo_owner : RepoOwners, repo_name : RepoNames, pr_id : {7},
      table_name : {PyNone, PyInt(5), PyStr("MyTable"), PyStr(" mytable "), PyStr("Nope")},
      page_token : {PyNone, PyStr("tok-1")}, simple : BOOLEAN ]

PullsReplies ==
    {HttpResponse(PullsBody(l, c), 200) : l \in PrLists, c \in Cursors}
    \cup {HttpResponse(OddPullsBody(p[1], p[2]), 200) : p \in OddPages}
    \cup {HttpResponse(PullsBody(<<Pr1>>, PyStr("tok-2")), 500)} \cup FaultReplies

DiffReplies ==
    {HttpResponse(DiffBody(t), 200) : t \in DiffPages} \cup FaultReplies

InitPaging ==
    /\ InitClient
    /\ \/ op = "list_prs" /\ args \in ListPrsArgs
       \/ op = "pull_pr_diff" /\ args \in PullPrDiffArgs
    /\ pc = "created"
    /\ locals = <<>>

\* the consumer calls next() on the list_prs generator; the first call runs
\* the function up to its while loop
ListPrsNext ==
    /\ op = "list_prs"
    /\ pc \in {"created", "suspended"}
    /\ pc' = "running"
    /\ locals' = IF pc = "created"
                 THEN [ graphql_query |-> ListPrsQuery(args), has_next_page |-> TRUE,
                        items |-> <<>>, index |-> 0 ]
                 ELSE locals
    /\ UNCHANGED <<remote, self, op, args, requests, received, invocations, json_loads_calls,
                   outcome, result, yielded>>

\* a turn of the while loop that asks for the next page before the items of
\* the page at hand are all delivered
ListPrsFetchAhead ==
    /\ op = "list_prs"
    /\ pc = "running"
    /\ locals.has_next_page
    /\ Len(received) < MaxPages
    /\ \E reply \in PullsReplies :
       \E r \in {PerformApiOperation(self, locals.graphql_query, reply)} :
       \E page \in {IF r.outcome.kind = "return"
                     THEN ListPrsPage(locals, args.simple, r.outcome.value[1], r.outcome.value[2])
                     ELSE r.outcome} :
         /\ Transport(r)
         /\ received' = Append(received, reply)
         /\ IF page.kind = "raise"
            THEN pc' = "failed" /\ result' = page /\ locals' = locals
            ELSE pc' = pc /\ result' = result /\ locals' = page.value
    /\ UNCHANGED <<remote, self, op, args, yielded>>

\* a turn of the while loop that takes an error as the end of the listing
ListPrsFetchQuietly ==
    /\ op = "list_prs"
    /\ pc = "running"
    /\ locals.index = Len(locals.items)
    /\ locals.has_next_page
    /\ Len(received) < MaxPages
    /\ \E reply \in PullsReplies :
       \E r \in {PerformApiOperation(self, locals.graphql_query, reply)} :
       \E page \in {IF r.outcome.kind = "return"
                     THEN ListPrsPage(locals, args.simple, r.outcome.value[1], r.outcome.value[2])
                     ELSE r.outcome} :
         /\ Transport(r)
         /\ received' = Append(received, reply)
         /\ pc' = pc
         /\ result' = result
         /\ locals' = IF page.kind = "raise"
                      THEN [locals EXCEPT !.has_next_page = FALSE]
                      ELSE page.value
    /\ UNCHANGED <<remote, self, op, args, yielded>>

\* one turn of the while loop of list_prs: the page request and what follows
\* it up to the walk of the page
ListPrsFetch ==
    /\ op = "list_prs"
    /\ pc = "running"
    /\ locals.index = Len(locals.items)
    /\ locals.has_next_page
    /\ Len(received) < MaxPages
    /\ \E reply \in PullsReplies :
       \E r \in {PerformApiOperation(self, locals.graphql_query, reply)} :
       \E page \in {IF r.outcome.kind = "return"
                     THEN ListPrsPage(locals, args.simple, r.outcome.value[1], r.outcome.value[2])
                     ELSE r.outcome} :
         /\ Transport(r)
         /\ received' = Append(received, reply)
         /\ IF page.kind = "raise"
            THEN pc' = "failed" /\ result' = page /\ locals' = locals
            ELSE pc' = pc /\ result' = result /\ locals' = page.value
    /\ UNCHANGED <<remote, self, op, args, yielded>>

\* list_prs yields the next entry of the page it walks
ListPrsYield ==
    /\ op = "list_prs"
    /\ pc = "running"
    /\ locals.index < Len(locals.items)
    /\ LET item == locals.items[locals.index + 1]
           simple_result == IF args.simple THEN SimplePr(item) ELSE Return(item) IN
       IF simple_result.kind = "raise"
       THEN pc' = "failed" /\ result' = simple_result /\ UNCHANGED <<locals, yielded>>
       ELSE /\ pc' = "suspended"
            /\ yielded' = Append(yielded, simple_result.value)
            /\ locals' = [locals EXCEPT !.index = @ + 1]
            /\ result' = result
    /\ UNCHANGED <<remote, self, op, args, requests, received, invocations, json_loads_calls, outcome>>

\* the while loop of list_prs ends: the generator returns
ListPrsEnd ==
    /\ op = "list_prs"
    /\ pc = "running"
    /\ locals.index = Len(locals.items)
    /\ ~locals.has_next_page
    /\ pc' = "exhausted"
    /\ result' = Return(PyNone)
    /\ UNCHANGED <<remote, self, op, args, locals, requests, received, invocations,
                   json_loads_calls, outcome, yielded>>

\* the consumer calls next() on the pull_pr_diff generator; the first call
\* runs the argument check and the function up to its while loop
PullPrDiffNext ==
    /\ op = "pull_pr_diff"
    /\ pc \in {"created", "suspended"}
    /\ IF pc = "created" /\ NeedsTableName(args)
       THEN /\ pc' = "failed"
            /\ result' = Raise("NeedAtLeastOneOptionalArgumentException", <<MsgNeedTableName>>)
            /\ locals' = locals
       ELSE /\ pc' = "running"
            /\ result' = result
            /\ locals' = IF pc = "created"
                         THEN [ graphql_query |-> PullPrDiffQuery(args), has_next_page |-> TRUE,
                                items |-> <<>>, index |-> 0, columns_list |-> <<>>,
                                pr_meta |-> PyNone ]
                         ELSE locals
    /\ UNCHANGED <<remote, self, op, args, requests, received, invocations, json_loads_calls,
                   outcome, yielded>>

\* one turn of the while loop of pull_pr_diff: the page request and what
\* follows it up to the walk of the rows
PullPrDiffFetch ==
    /\ op = "pull_pr_diff"
    /\ pc = "running"
    /\ locals.index = Len(locals.items)
    /\ locals.has_next_page
    /\ Len(received) < MaxPages
    /\ \E reply \in DiffReplies :
       \E r \in {PerformApiOperation(self, locals.graphql_query, reply)} :
       \E page \in {IF r.outcome.kind = "raise" THEN r.outcome
                     ELSE IF ~args.simple
                     THEN Raise("NotImplementedException", <<MsgNotImplemented>>)
                     ELSE PullPrDiffPage(locals, args.table_name, r.outcome.value[1])} :
         /\ Transport(r)
         /\ received' = Append(received, reply)
         /\ IF page.kind = "raise"
            THEN pc' = "failed" /\ result' = page /\ locals' = locals
            ELSE IF page.value.returned
            THEN pc' = "exhausted" /\ result' = Return(PyNone) /\ locals' = locals
            ELSE pc' = pc /\ result' = result /\ locals' = page.value.locals
    /\ UNCHANGED <<remote, self, op, args, yielded>>

\* pull_pr_diff yields the next row of the table it walks
PullPrDiffYield ==
    /\ op = "pull_pr_diff"
    /\ pc = "running"
    /\ locals.index < Len(locals.items)
    /\ LET row == locals.items[locals.index + 1]
           simple_result == SimpleRow(row, locals.columns_list, locals.pr_meta) IN
       IF simple_result.kind = "raise"
       THEN pc' = "failed" /\ result' = simple_result /\ UNCHANGED <<locals, yielded>>
       ELSE /\ pc' = "suspended"
            /\ yielded' = Append(yielded, simple_result.value)
            /\ locals' = [locals EXCEPT !.index = @ + 1]
            /\ result' = result
    /\ UNCHANGED <<remote, self, op, args, requests, received, invocations, json_loads_calls, outcome>>

\* the while loop of pull_pr_diff ends: the generator returns
PullPrDiffEnd ==
    /\ op = "pull_pr_diff"
    /\ pc = "running"
    /\ locals.index = Len(locals.items)
    /\ ~locals.has_next_page
    /\ pc' = "exhausted"
    /\ result' = Return(PyNone)
    /\ UNCHANGED <<remote, self, op, args, locals, requests, received, invocations,
                   json_loads_calls, outcome, yielded>>

NextPaging ==
    \/ ListPrsNext \/ ListPrsFetch \/ ListPrsYield \/ ListPrsEnd
    \/ PullPrDiffNext \/ PullPrDiffFetch \/ PullPrDiffYield \/ PullPrDiffEnd

SpecPaging == InitPaging /\ [][NextPaging]_vars

-----------------------------------------------------------------------------
(* Specification SpecChangeLog: a consumer draws from one list_pr_change_log *)
(* generator against an arbitrary upstream; pc as in SpecPaging.            *)

ListPrChangeLogArgs ==
    [ repo_owner : RepoOwners, repo_name : RepoNames, pr_id : {7},
      page_token : {PyNone, PyStr("tok-1")}, simple : BOOLEAN ]

DetailsReplies ==
    {HttpResponse(DetailsBody(e, c), 200) : e \in DetailLists, c \in DetailsCursors}
    \cup {HttpResponse(OddDetailsBody(d), 200) : d \in OddDetails}
    \cup {HttpResponse(NoPullBody, 200)} \cup FaultReplies

InitChangeLog ==
    /\ InitClient
    /\ op = "list_pr_change_log"
    /\ args \in ListPrChangeLogArgs
    /\ pc = "created"
    /\ locals = <<>>

\* the consumer calls next() on the generator; the first call builds the request
ListPrChangeLogNext ==
    /\ op = "list_pr_change_log"
    /\ pc \in {"created", "suspended"}
    /\ pc' = "running"
    /\ locals' = IF pc = "created"
                 THEN [ graphql_query |-> ListPrChangeLogQuery(args), fetched |-> FALSE,
                        items |-> <<>>, index |-> 0 ]
                 ELSE locals
    /\ UNCHANGED <<remote, self, op, args, requests, received, invocations, json_loads_calls,
                   outcome, result, yielded>>

\* the request of list_pr_change_log and what follows it up to the walk of
\* the entries
ListPrChangeLogFetch ==
    /\ op = "list_pr_change_log"
    /\ pc = "running"
    /\ ~locals.fetched
    /\ \E reply \in DetailsReplies :
       \E r \in {PerformApiOperation(self, locals.graphql_query, reply)} :
       \E page \in {IF r.outcome.kind = "return"
                     THEN ListPrChangeLogPage(args.simple, r.outcome.value[1], r.outcome.value[2])
                     ELSE r.outcome} :
         /\ Transport(r)
         /\ received' = Append(received, reply)
         /\ IF page.kind = "raise"
            THEN pc' = "failed" /\ result' = page /\ locals' = locals
            ELSE /\ pc' = pc /\ result' = result
                 /\ locals' = [locals EXCEPT !.fetched = TRUE, !.items = page.value]
    /\ UNCHANGED <<remote, self, op, args, yielded>>

\* list_pr_change_log yields the next entry
ListPrChangeLogYield ==
    /\ op = "list_pr_change_log"
    /\ pc = "running"
    /\ locals.fetched
    /\ locals.index < Len(locals.items)
    /\ \E simple_result \in {IF args.simple THEN SimpleEntry(locals.items[locals.index + 1])
                               ELSE Return(locals.items[locals.index + 1])} :
       IF simple_result.kind = "raise"
       THEN pc' = "failed" /\ result' = simple_result /\ UNCHANGED <<locals, yielded>>
       ELSE /\ pc' = "suspended"
            /\ yielded' = Append(yielded, simple_result.value)
            /\ locals' = [locals EXCEPT !.index = @ + 1]
            /\ result' = result
    /\ UNCHANGED <<remote, self, op, args, requests, received, invocations, json_loads_calls, outcome>>

\* the entries are all drawn: the generator returns
ListPrChangeLogEnd ==
    /\ op = "list_pr_change_log"
    /\ pc = "running"
    /\ locals.fetched
    /\ locals.index = Len(locals.items)
    /\ pc' = "exhausted"
    /\ result' = Return(PyNone)
    /\ UNCHANGED <<remote, self, op, args, locals, requests, received, invocations,
                   json_loads_calls, outcome, yielded>>

NextChangeLog ==
    ListPrChangeLogNext \/ ListPrChangeLogFetch \/ ListPrChangeLogYield \/ ListPrChangeLogEnd

SpecChangeLog == InitChangeLog /\ [][NextChangeLog]_vars

-----------------------------------------------------------------------------
(* Specification SpecSummary: one pull_pr_diff_summary call against an *)
(* arbitrary upstream                                                   *)

PullPrDiffSummaryArgs ==
    [ source_repo_owner : {"bob"}, source_repo_name : RepoNames,
      source_commit_id : {"c0ffee"},
      destination_repo_owner : RepoOwners, destination_repo_name : RepoNames,
      destination_commit_id : {"ba5e"}, simple : BOOLEAN ]

SummaryReplies ==
    {HttpResponse(SummaryBody(s), 200) : s \in DiffSummaries}
    \cup {HttpResponse(NoSummaryBody, 200)} \cup FaultReplies

InitSummary ==
    /\ InitClient
    /\ op = "pull_pr_diff_summary"
    /\ args \in PullPrDiffSummaryArgs
    /\ pc = "ready"
    /\ locals = <<>>

\* the whole of pull_pr_diff_summary: the request, and the dictionary built
\* from the response
PullPrDiffSummary ==
    /\ op = "pull_pr_diff_summary"
    /\ pc = "ready"
    /\ \E reply \in SummaryReplies :
       \E r \in {PerformApiOperation(self, DiffSummaryQuery(args), reply)} :
         /\ Transport(r)
         /\ received' = Append(received, reply)
         /\ result' = IF r.outcome.kind = "return"
                      THEN PullPrDiffSummaryResult(args.simple, r.outcome.value[1],
                                                   r.outcome.value[2])
                      ELSE r.outcome
    /\ pc' = "done"
    /\ UNCHANGED <<remote, self, op, args, locals, yielded>>

NextSummary == PullPrDiffSummary

SpecSummary == InitSummary /\ [][NextSummary]_vars

-----------------------------------------------------------------------------
(* Specification SpecConstruct: a caller constructs the client and, if the *)
(* construction gave one, uses it                                           *)

\* no object: the name the caller would bind is unbound
NoClient == [kind |-> "none"]

ConstructArgs ==
    [ token : {PyNone, PyStr("secret-token"), PyStr("")},
      token_file : {PyNone, PyStr("token.txt"), PyStr("lines.txt"), PyStr("blank.txt"),
                    PyStr("tokens"), PyStr("missing.txt")} ]

\* the replies the upstream gives to the constructed client
ConstructReplies ==
    {HttpResponse("{}", 200), HttpResponse("upstream request timeout", 500), HttpFailure}

InitConstruct ==
    /\ self = NoClient
    /\ op = "__init__"
    /\ args \in ConstructArgs
    /\ pc = "new"
    /\ locals = <<>>
    /\ requests = <<>>
    /\ received = <<>>
    /\ invocations = 0
    /\ json_loads_calls = 0
    /\ outcome = NoOutcome
    /\ result = NoOutcome
    /\ yielded = <<>>
    /\ remote = NoRemote

\* PRManager(token=..., token_file=...)
ConstructClient ==
    /\ op = "__init__"
    /\ pc = "new"
    /\ \E made \in {Construct(args.token, args.token_file)} :
         /\ result' = made
         /\ IF made.kind = "return"
            THEN self' = made.value /\ pc' = "constructed"
            ELSE self' = self /\ pc' = "failed"
    /\ UNCHANGED <<remote, op, args, locals, requests, received, invocations,
                   json_loads_calls, outcome, yielded>>

\* the caller has an object and invokes perform_api_operation on it
ConstructedCall ==
    /\ op = "__init__"
    /\ pc = "constructed"
    /\ invocations < MaxCalls
    /\ \E q \in RawQueries, reply \in ConstructReplies :
       \E r \in {PerformApiOperation(self, q, reply)} :
         /\ Transport(r)
         /\ received' = Append(received, reply)
    /\ UNCHANGED <<remote, self, op, args, pc, locals, result, yielded>>

NextConstruct == ConstructClient \/ ConstructedCall

SpecConstruct == InitConstruct /\ [][NextConstruct]_vars

-----------------------------------------------------------------------------
(* Specification SpecRace: two callers run update_pr on the same pull       *)
(* request through one client, each in a thread of its own, the first       *)
(* giving a title only and the second a message only.  requests.post blocks *)
(* its caller: a request reaches the upstream, which answers a lookup with  *)
(* the pull request it holds and writes the three values of an              *)
(* UpdatePullInfo mutation into it, and the caller takes the reply in a     *)
(* later step, with the other caller free to run in between.  args, pc,     *)
(* locals and result hold one value per caller; pc is "lookup_in_flight"    *)
(* or "update_in_flight" while the caller is inside requests.post.          *)

RaceCallers == {1, 2}

RaceArgs ==
    [ c \in RaceCallers |->
        [ repo_owner |-> "alice", repo_name |-> "corona", pr_id |-> 7, pr_state |-> PyNone,
          pr_title |-> IF c = 1 THEN PyStr("New title") ELSE PyNone,
          pr_message |-> IF c = 2 THEN PyStr("New message") ELSE PyNone ] ]

\* the pull request after the upstream applied an UpdatePullInfo mutation
ApplyUpdate(pull, variables) ==
    [ state |-> variables.state, title |-> variables.title,
      description |-> variables.description ]

\* the replies to a caller: the upstream's answer, or none at all
RaceLookupReplies(key, pull) == {HttpResponse(LookupBody(key, pull), 200), HttpFailure}
RaceMutationReplies(key) == {HttpResponse(UpdateBody(key), 200), HttpFailure}

InitRace ==
    /\ self \in {NewPRManager(t) : t \in Tokens}
    /\ op = "update_pr"
    /\ args = RaceArgs
    /\ pc = [c \in RaceCallers |-> "start"]
    /\ locals = [c \in RaceCallers |-> <<>>]
    /\ requests = <<>>
    /\ received = <<>>
    /\ invocations = 0
    /\ json_loads_calls = 0
    /\ outcome = NoOutcome
    /\ result = [c \in RaceCallers |-> NoOutcome]
    /\ yielded = <<>>
    /\ remote \in RemotePulls

\* caller c runs update_pr up to its first request
RaceBegin(c) ==
    /\ pc[c] = "start"
    /\ IF NoOptionalArgument(args[c])
       THEN /\ result' = [result EXCEPT ![c] =
                            Raise("NeedAtLeastOneOptionalArgumentException", <<MsgNeedArgument>>)]
            /\ pc' = [pc EXCEPT ![c] = "done"]
            /\ locals' = locals
       ELSE \E l \in {[ should_merge |-> ShouldMerge(args[c].pr_state),
                        pr_state |-> DeferredState(args[c].pr_state),
                        pr_title |-> args[c].pr_title,
                        pr_message |-> args[c].pr_message,
                        existing_values |-> PyNone,
                        update_result |-> PyNone,
                        response |-> PyNone ]} :
            /\ locals' = [locals EXCEPT ![c] = l]
            /\ pc' = [pc EXCEPT ![c] = IF NeedsLookup(l) THEN "lookup" ELSE "update"]
            /\ result' = result
    /\ UNCHANGED <<remote, self, op, args, requests, received, invocations, json_loads_calls,
                   outcome, yielded>>

\* caller c enters perform_api_operation for its lookup and calls
\* requests.post: the request reaches the upstream, which answers with the
\* pull request it holds; the caller stays inside requests.post
RaceLookupPost(c) ==
    /\ pc[c] = "lookup"
    /\ \E reply \in RaceLookupReplies(KeyOf(args[c]), remote) :
         /\ requests' = requests \o Posts(self, LookupQuery(KeyOf(args[c])), reply)
         /\ received' = Append(received, reply)
         /\ locals' = [locals EXCEPT ![c].response = reply]
    /\ invocations' = invocations + 1
    /\ pc' = [pc EXCEPT ![c] = "lookup_in_flight"]
    /\ UNCHANGED <<remote, self, op, args, json_loads_calls, outcome, result, yielded>>

\* requests.post returns to caller c: the rest of perform_api_operation,
\* the simplification of lookup_pr and the backfill of the absent values
RaceLookup(c) ==
    /\ pc[c] = "lookup_in_flight"
    /\ \E r \in {PerformApiOperation(self, LookupQuery(KeyOf(args[c])), locals[c].response)} :
       \E existing \in {IF r.outcome.kind = "return"
                         THEN LookupSimple(r.outcome.value[1])
                         ELSE r.outcome} :
         /\ json_loads_calls' = json_loads_calls + (IF r.decoded THEN 1 ELSE 0)
         /\ outcome' = r.outcome
         /\ IF existing.kind = "raise"
            THEN /\ result' = [result EXCEPT ![c] = existing]
                 /\ pc' = [pc EXCEPT ![c] = "done"]
                 /\ locals' = locals
            ELSE /\ locals' = [locals EXCEPT ![c] =
                                 [ Backfill(locals[c], existing.value)
                                     EXCEPT !.existing_values = existing.value ]]
                 /\ pc' = [pc EXCEPT ![c] = "update"]
                 /\ result' = result
    /\ UNCHANGED <<remote, self, op, args, requests, received, invocations, yielded>>

\* caller c enters perform_api_operation for its UpdatePullInfo mutation and
\* calls requests.post: the upstream writes the values of the mutation when
\* the request reaches it; the caller stays inside requests.post
RaceMutatePost(c) ==
    /\ pc[c] = "update"
    /\ ~locals[c].should_merge
    /\ \E reply \in RaceMutationReplies(KeyOf(args[c])) :
         /\ requests' = requests \o Posts(self, UpdateQuery(KeyOf(args[c]), locals[c]), reply)
         /\ received' = Append(received, reply)
         /\ locals' = [locals EXCEPT ![c].response = reply]
         /\ remote' = IF reply.kind = "response"
                      THEN ApplyUpdate(remote, UpdateQuery(KeyOf(args[c]), locals[c]).variables)
                      ELSE remote
    /\ invocations' = invocations + 1
    /\ pc' = [pc EXCEPT ![c] = "update_in_flight"]
    /\ UNCHANGED <<self, op, args, json_loads_calls, outcome, result, yielded>>

\* requests.post returns to caller c: the rest of perform_api_operation and
\* the return of update_pr
RaceMutate(c) ==
    /\ pc[c] = "update_in_flight"
    /\ \E r \in {PerformApiOperation(self, UpdateQuery(KeyOf(args[c]), locals[c]),
                                     locals[c].response)} :
         /\ json_loads_calls' = json_loads_calls + (IF r.decoded THEN 1 ELSE 0)
         /\ outcome' = r.outcome
         /\ result' = [result EXCEPT ![c] =
                         IF r.outcome.kind = "raise" THEN r.outcome
                         ELSE Return(<<r.outcome.value[1], r.outcome.value[2]>>)]
         /\ pc' = [pc EXCEPT ![c] = "done"]
    /\ UNCHANGED <<remote, self, op, args, locals, requests, received, invocations, yielded>>

NextRace ==
    \E c \in RaceCallers :
        \/ RaceBegin(c) \/ RaceLookupPost(c) \/ RaceLookup(c)
        \/ RaceMutatePost(c) \/ RaceMutate(c)

SpecRace == InitRace /\ [][NextRace]_vars

-----------------------------------------------------------------------------
(* Specification SpecSequences: two list_prs generators created on one      *)
(* client and consumed in any interleaving, the first started at the cursor *)
(* tok-1 and the second at the beginning.  args, pc, locals, result,        *)
(* yielded, requests and received hold one value per generator.  A          *)
(* generator is "in_flight" between its call of requests.post and the       *)
(* answer of the upstream; the other generator runs meanwhile.              *)

Generators == {1, 2}

SequenceArgs ==
    [ g \in Generators |->
        [ repo_owner |-> "alice", repo_name |-> "corona",
          page_token |-> IF g = 1 THEN PyStr("tok-1") ELSE PyNone, simple |-> TRUE ] ]

SequenceReplies == {HttpResponse(PullsBody(<<Pr1>>, c), 200) : c \in TokenCursors}

InitSequences ==
    /\ self \in {NewPRManager(t) : t \in Tokens}
    /\ op = "list_prs"
    /\ args = SequenceArgs
    /\ pc = [g \in Generators |-> "created"]
    /\ locals = [g \in Generators |-> <<>>]
    /\ requests = [g \in Generators |-> <<>>]
    /\ received = [g \in Generators |-> <<>>]
    /\ invocations = 0
    /\ json_loads_calls = 0
    /\ outcome = NoOutcome
    /\ result = [g \in Generators |-> NoOutcome]
    /\ yielded = [g \in Generators |-> <<>>]
    /\ remote = NoRemote

\* the consumer of generator g calls next(); the first call runs the function
\* up to its while loop
SequenceNext(g) ==
    /\ pc[g] \in {"created", "suspended"}
    /\ pc' = [pc EXCEPT ![g] = "running"]
    /\ locals' = IF pc[g] = "created"
                 THEN [locals EXCEPT ![g] =
                         [ graphql_query |-> ListPrsQuery(args[g]), has_next_page |-> TRUE,
                           items |-> <<>>, index |-> 0 ]]
                 ELSE locals
    /\ UNCHANGED <<remote, self, op, args, requests, received, invocations, json_loads_calls,
                   outcome, result, yielded>>

\* a turn of the while loop of generator g that sends the query the other
\* generator holds
SequencePostShared(g) ==
    /\ pc[g] = "running"
    /\ locals[g].index = Len(locals[g].items)
    /\ locals[g].has_next_page
    /\ Len(requests[g]) < MaxPagesEach
    /\ \E q \in {IF locals[3 - g] # <<>> THEN locals[3 - g].graphql_query
                 ELSE locals[g].graphql_query} :
         requests' = [requests EXCEPT ![g] = Append(@, PostCall(self, q))]
    /\ invocations' = invocations + 1
    /\ pc' = [pc EXCEPT ![g] = "in_flight"]
    /\ UNCHANGED <<remote, self, op, args, locals, received, json_loads_calls, outcome,
                   result, yielded>>

\* a turn of the while loop of generator g begins: it enters
\* perform_api_operation with the query of its own frame and calls
\* requests.post, inside which it stays until the upstream answers
SequencePost(g) ==
    /\ pc[g] = "running"
    /\ locals[g].index = Len(locals[g].items)
    /\ locals[g].has_next_page
    /\ Len(requests[g]) < MaxPagesEach
    /\ requests' = [requests EXCEPT ![g] = Append(@, PostCall(self, locals[g].graphql_query))]
    /\ invocations' = invocations + 1
    /\ pc' = [pc EXCEPT ![g] = "in_flight"]
    /\ UNCHANGED <<remote, self, op, args, locals, received, json_loads_calls, outcome,
                   result, yielded>>

\* requests.post returns to generator g: the rest of perform_api_operation
\* and what follows it up to the walk of the page
SequenceFetch(g) ==
    /\ pc[g] = "in_flight"
    /\ \E reply \in SequenceReplies :
       \E r \in {PerformApiOperation(self, locals[g].graphql_query, reply)} :
       \E page \in {IF r.outcome.kind = "return"
                     THEN ListPrsPage(locals[g], args[g].simple, r.outcome.value[1],
                                      r.outcome.value[2])
                     ELSE r.outcome} :
         /\ received' = [received EXCEPT ![g] = Append(@, reply)]
         /\ json_loads_calls' = json_loads_calls + (IF r.decoded THEN 1 ELSE 0)
         /\ outcome' = r.outcome
         /\ IF page.kind = "raise"
            THEN /\ pc' = [pc EXCEPT ![g] = "failed"]
                 /\ result' = [result EXCEPT ![g] = page]
                 /\ locals' = locals
            ELSE /\ pc' = [pc EXCEPT ![g] = "running"]
                 /\ result' = result
                 /\ locals' = [locals EXCEPT ![g] = page.value]
    /\ UNCHANGED <<remote, self, op, args, requests, invocations, yielded>>

\* generator g yields the next entry of the page it walks
SequenceYield(g) ==
    /\ pc[g] = "running"
    /\ locals[g].index < Len(locals[g].items)
    /\ \E simple_result \in {IF args[g].simple
                             THEN SimplePr(locals[g].items[locals[g].index + 1])
                             ELSE Return(locals[g].items[locals[g].index + 1])} :
       IF simple_result.kind = "raise"
       THEN /\ pc' = [pc EXCEPT ![g] = "failed"]
            /\ result' = [result EXCEPT ![g] = simple_result]
            /\ UNCHANGED <<locals, yielded>>
       ELSE /\ pc' = [pc EXCEPT ![g] = "suspended"]
            /\ yielded' = [yielded EXCEPT ![g] = Append(@, simple_result.value)]
            /\ locals' = [locals EXCEPT ![g].index = @ + 1]
            /\ result' = result
    /\ UNCHANGED <<remote, self, op, args, requests, received, invocations, json_loads_calls, outcome>>

\* the while loop of generator g ends: the generator returns
SequenceEnd(g) ==
    /\ pc[g] = "running"
    /\ locals[g].index = Len(locals[g].items)
    /\ ~locals[g].has_next_page
    /\ pc' = [pc EXCEPT ![g] = "exhausted"]
    /\ result' = [result EXCEPT ![g] = Return(PyNone)]
    /\ UNCHANGED <<remote, self, op, args, locals, requests, received, invocations,
                   json_loads_calls, outcome, yielded>>

NextSequences ==
    \E g \in Generators :
        \/ SequenceNext(g) \/ SequencePost(g) \/ SequenceFetch(g)
        \/ SequenceYield(g) \/ SequenceEnd(g)

SpecSequences == InitSequences /\ [][NextSequences]_vars

-----------------------------------------------------------------------------
(* Specification SpecRevisions: the revisions of the client side by side.   *)
(* The earlier revision (src/pr_manager.py), the packaged one and the first *)
(* one (class Dolthub, src/dolthub.py) each run the same call of one        *)
(* operation against the same sequence of replies: received holds the       *)
(* replies of the upstream in order, and the k-th request of a revision is  *)
(* answered by the k-th of them.  pc, locals, requests and result hold one  *)
(* value per revision.                                                      *)

Revisions == {"earlier", "packaged", "dolthub"}

\* the operations of this specification that revision v has
Operations(v) ==
    CASE v = "dolthub" -> {"lookup_pr", "update_pr"}
      [] v = "earlier" -> {"lookup_pr", "update_pr", "merge_pr", "comment_on_pr", "create_pr"}
      [] v = "packaged" -> { "lookup_pr", "update_pr", "merge_pr", "comment_on_pr", "create_pr",
                             "delete_comment", "update_comment" }

\* the name of the class of revision v
ClassName(v) == IF v = "dolthub" THEN "Dolthub" ELSE "PRManager"

\* perform_api_operation of revision v; the text of the first revision's is
\* that of the earlier revision's
Perform(v, this, graphql_query, reply) ==
    IF v = "packaged" THEN PerformApiOperation(this, graphql_query, reply)
    ELSE PerformApiOperationEarlier(this, graphql_query, reply)

\* the fields lookup_pr of the first revision reads, in the order it reads them
DolthubLookupFields ==
    << "pullId", "state", "title", "description",
       "fromBranchName", "fromBranchOwnerName", "fromBranchRepoName",
       "toBranchName", "toBranchOwnerName", "toBranchRepoName", "creatorName", "isFork" >>

\* lookup_pr of the first revision in simple mode on a decoded body
DolthubLookupSimple(res) ==
    LET meta == Subscript2(res, "data", "pull") IN
    IF meta.kind = "raise" THEN meta
    ELSE LET pr_meta == meta.value
             id == Subscript(pr_meta, "pullId")
             missing == {i \in 1..Len(DolthubLookupFields) :
                            Subscript(pr_meta, DolthubLookupFields[i]).kind = "raise"} IN
         IF id.kind = "raise" THEN id
         ELSE IF StrToInt(id.value).kind = "raise" THEN StrToInt(id.value)
         ELSE IF missing # {}
         THEN Subscript(pr_meta,
                        DolthubLookupFields[CHOOSE i \in missing : \A j \in missing : i <= j])
         ELSE Return(PyDict(
                [ id |-> StrToInt(id.value).value,
                  state |-> pr_meta.v.state,
                  title |-> pr_meta.v.title,
                  message |-> pr_meta.v.description,
                  source |-> PyDict([ branch |-> pr_meta.v.fromBranchName,
                                      owner |-> pr_meta.v.fromBranchOwnerName,
                                      repo |-> pr_meta.v.fromBranchRepoName ]),
                  destination |-> PyDict([ branch |-> pr_meta.v.toBranchName,
                                           owner |-> pr_meta.v.toBranchOwnerName,
                                           repo |-> pr_meta.v.toBranchRepoName ]),
                  creator |-> pr_meta.v.creatorName,
                  fork |-> PyBool(pr_meta.v.isFork) ]))

\* the simplification lookup_pr of revision v makes
LookupSimpleOf(v, res) == IF v = "dolthub" THEN DolthubLookupSimple(res) ELSE LookupSimple(res)

\* the request of comment_on_pr
CommentQuery(a) ==
    [ operationName |-> "CreatePullComment",
      variables |-> [ ownerName |-> a.repo_owner, repoName |-> a.repo_name,
                      parentId |-> IntToStr(a.pr_id), comment |-> a.message.v ] ]

\* the request of delete_comment
DeleteCommentQuery(a) ==
    [operationName |-> "DeletePullComment", variables |-> [_id |-> a.comment_id]]

\* the request of update_comment
UpdateCommentQuery(a) ==
    [ operationName |-> "UpdatePullComment",
      variables |-> [ _id |-> a.comment_id, authorName |-> "please-explain-authorName",
                      comment |-> a.message ] ]

\* the request of create_pr
CreatePrQuery(a) ==
    [ operationName |-> "CreatePullRequestWithForks",
      variables |-> [ title |-> a.pr_title, description |-> a.pr_message,
                      fromBranchName |-> a.source_branch,
                      toBranchName |-> a.destination_branch,
                      fromBranchOwnerName |-> a.source_repo_owner,
                      fromBranchRepoName |-> a.source_repo_name,
                      toBranchOwnerName |-> a.destination_repo_owner,
                      toBranchRepoName |-> a.destination_repo_name,
                      parentOwnerName |-> a.destination_repo_owner,
                      parentRepoName |-> a.destination_repo_name ] ]

\* create_pr in simple mode on a decoded body: the id of the new pull request
CreateSimple(res) ==
    LET meta == Subscript2(res, "data", "createPullWithForks") IN
    IF meta.kind = "raise" THEN meta
    ELSE LET id == Subscript(meta.value, "pullId") IN
         IF id.kind = "raise" THEN id
         ELSE IF StrToInt(id.value).kind = "raise" THEN StrToInt(id.value)
         ELSE Return(PyDict([id |-> StrToInt(id.value).value]))

\* the decoded body and the status code, as the raw mode of an operation
\* returns them
RawResult(value) == Return(<<value[1], value[2]>>)

LookupArgs == [repo_owner : RepoOwners, repo_name : RepoNames, pr_id : {7}, simple : BOOLEAN]

MergeArgs == [repo_owner : RepoOwners, repo_name : RepoNames, pr_id : {7}]

CommentArgs ==
    [ repo_owner : RepoOwners, repo_name : RepoNames, pr_id : PullIds,
      message : {PyStr("New message"), PyStr("")} ]

DeleteCommentArgs == [comment_id : {PyStr("comment-1")}]

UpdateCommentArgs == [comment_id : {PyStr("comment-1")}, message : {PyStr("New message")}]

CreatePrArgs ==
    [ source_repo_owner : {PyStr("bob")}, source_repo_name : {PyStr("corona")},
      source_branch : {PyStr("fix")}, destination_repo_owner : {PyStr("alice")},
      destination_repo_name : {PyStr("corona")}, destination_branch : {PyStr("master")},
      pr_title : {PyStr(""), PyStr("New title")}, pr_message : {PyStr("New message")},
      simple : BOOLEAN ]

\* the replies to a CreatePullRequestWithForks mutation
CreateReplies ==
    {HttpResponse(CreateBody(id), s) : id \in CreatedIds, s \in {200, 500}} \cup FaultReplies

\* the reply to the next request of revision v: the one the upstream already
\* gave to that request of another revision, or a new one out of fresh
NextReplies(v, fresh) ==
    IF Len(requests[v]) < Len(received) THEN {received[Len(requests[v]) + 1]} ELSE fresh

\* the effect of one perform_api_operation invocation r of revision v,
\* answered by reply, on the observed state
RevisionTransport(v, r, reply) ==
    /\ requests' = [requests EXCEPT ![v] = @ \o r.sent]
    /\ received' = IF Len(requests[v]) < Len(received) THEN received
                   ELSE Append(received, reply)
    /\ invocations' = invocations + 1
    /\ json_loads_calls' = json_loads_calls + (IF r.decoded THEN 1 ELSE 0)
    /\ outcome' = r.outcome

\* a call of an operation the class of revision v does not define
NoSuchOperation(v) ==
    Raise("AttributeError",
          <<"'" \o ClassName(v) \o "' object has no attribute '" \o op \o "'">>)

InitRevisions ==
    /\ self \in {NewPRManager(t) : t \in Tokens}
    /\ \/ op = "update_pr" /\ args \in {a \in UpdateArgs : a.pr_id = 7}
       \/ op = "lookup_pr" /\ args \in LookupArgs
       \/ op = "merge_pr" /\ args \in MergeArgs
       \/ op = "comment_on_pr" /\ args \in CommentArgs
       \/ op = "create_pr" /\ args \in CreatePrArgs
       \/ op = "delete_comment" /\ args \in DeleteCommentArgs
       \/ op = "update_comment" /\ args \in UpdateCommentArgs
    /\ pc = [v \in Revisions |-> IF op \in Operations(v) THEN "start" ELSE "done"]
    /\ locals = [v \in Revisions |-> <<>>]
    /\ requests = [v \in Revisions |-> <<>>]
    /\ received = <<>>
    /\ invocations = 0
    /\ json_loads_calls = 0
    /\ outcome = NoOutcome
    /\ result = [v \in Revisions |-> IF op \in Operations(v) THEN NoOutcome
                                     ELSE NoSuchOperation(v)]
    /\ yielded = <<>>
    /\ remote = NoRemote

\* update_pr of revision v up to its first request; the first revision sends
\* the state "Merged" as it is given and has no merge
RevisionBegin(v) ==
    /\ op = "update_pr"
    /\ pc[v] = "start"
    /\ IF NoOptionalArgument(args)
       THEN /\ result' = [result EXCEPT ![v] =
                            Raise("NeedAtLeastOneOptionalArgumentException", <<MsgNeedArgument>>)]
            /\ pc' = [pc EXCEPT ![v] = "done"]
            /\ locals' = locals
       ELSE \E l \in {[ should_merge |-> IF v = "dolthub" THEN FALSE
                                         ELSE ShouldMerge(args.pr_state),
                        pr_state |-> IF v = "dolthub" THEN args.pr_state
                                     ELSE DeferredState(args.pr_state),
                        pr_title |-> args.pr_title,
                        pr_message |-> args.pr_message,
                        existing_values |-> PyNone,
                        update_result |-> PyNone ]} :
            /\ locals' = [locals EXCEPT ![v] = l]
            /\ pc' = [pc EXCEPT ![v] = IF NeedsLookup(l) THEN "lookup" ELSE "update"]
            /\ result' = result
    /\ UNCHANGED <<remote, self, op, args, requests, received, invocations, json_loads_calls,
                   outcome, yielded>>

\* the lookup_pr call of update_pr of revision v and the backfill
RevisionLookup(v) ==
    /\ op = "update_pr"
    /\ pc[v] = "lookup"
    /\ \E reply \in NextReplies(v, LookupReplies(KeyOf(args))) :
       \E r \in {Perform(v, self, LookupQuery(KeyOf(args)), reply)} :
       \E existing \in {IF r.outcome.kind = "return"
                         THEN LookupSimpleOf(v, r.outcome.value[1])
                         ELSE r.outcome} :
         /\ RevisionTransport(v, r, reply)
         /\ IF existing.kind = "raise"
            THEN /\ result' = [result EXCEPT ![v] = existing]
                 /\ pc' = [pc EXCEPT ![v] = "done"]
                 /\ locals' = locals
            ELSE /\ locals' = [locals EXCEPT ![v] =
                                 [ Backfill(locals[v], existing.value)
                                     EXCEPT !.existing_values = existing.value ]]
                 /\ pc' = [pc EXCEPT ![v] = "update"]
                 /\ result' = result
    /\ UNCHANGED <<remote, self, op, args, yielded>>

\* the UpdatePullInfo mutation of update_pr of revision v
RevisionMutate(v) ==
    /\ op = "update_pr"
    /\ pc[v] = "update"
    /\ \E reply \in NextReplies(v, MutationReplies(KeyOf(args))) :
       \E r \in {Perform(v, self, UpdateQuery(KeyOf(args), locals[v]), reply)} :
         /\ RevisionTransport(v, r, reply)
         /\ IF r.outcome.kind = "raise"
            THEN /\ result' = [result EXCEPT ![v] = r.outcome]
                 /\ pc' = [pc EXCEPT ![v] = "done"]
                 /\ locals' = locals
            ELSE IF locals[v].should_merge
            THEN /\ locals' = [locals EXCEPT ![v].update_result =
                                 <<r.outcome.value[1], r.outcome.value[2]>>]
                 /\ pc' = [pc EXCEPT ![v] = "merge"]
                 /\ result' = result
            ELSE /\ result' = [result EXCEPT ![v] = RawResult(r.outcome.value)]
                 /\ pc' = [pc EXCEPT ![v] = "done"]
                 /\ locals' = locals
    /\ UNCHANGED <<remote, self, op, args, yielded>>

\* the merge_pr call that ends an update_pr to "Merged" of revision v
RevisionMerge(v) ==
    /\ op = "update_pr"
    /\ pc[v] = "merge"
    /\ \E reply \in NextReplies(v, MergeReplies(KeyOf(args))) :
       \E r \in {Perform(v, self, MergeQuery(KeyOf(args)), reply)} :
         /\ RevisionTransport(v, r, reply)
         /\ result' = [result EXCEPT ![v] =
                         IF r.outcome.kind = "raise"
                         THEN r.outcome
                         ELSE Return(<< locals[v].update_result[1], locals[v].update_result[2],
                                        r.outcome.value[1], r.outcome.value[2] >>)]
         /\ pc' = [pc EXCEPT ![v] = "done"]
    /\ UNCHANGED <<remote, self, op, args, locals, yielded>>

\* an operation of revision v that sends the one request q and hands the
\* decoded body and the status code to its caller: as they are ("raw"), or
\* after the simplification of lookup_pr ("lookup") or create_pr ("create")
RevisionSingle(v, q, fresh, mode) ==
    /\ pc[v] = "start"
    /\ \E reply \in NextReplies(v, fresh) :
       \E r \in {Perform(v, self, q, reply)} :
         /\ RevisionTransport(v, r, reply)
         /\ result' = [result EXCEPT ![v] =
                         IF r.outcome.kind = "raise" THEN r.outcome
                         ELSE CASE mode = "raw" -> RawResult(r.outcome.value)
                                [] mode = "lookup" -> LookupSimpleOf(v, r.outcome.value[1])
                                [] mode = "create" -> CreateSimple(r.outcome.value[1])]
         /\ pc' = [pc EXCEPT ![v] = "done"]
    /\ UNCHANGED <<remote, self, op, args, locals, yielded>>

\* lookup_pr of revision v: the simplified dictionary, or the body and the
\* status code in raw mode
RevisionLookupPr(v) ==
    /\ op = "lookup_pr"
    /\ RevisionSingle(v, LookupQuery(KeyOf(args)),
                      LookupReplies(KeyOf(args))
                        \cup {HttpResponse(FlagLookupBody(KeyOf(args)), 200)},
                      IF args.simple THEN "lookup" ELSE "raw")

\* merge_pr of revision v
RevisionMergePr(v) ==
    /\ op = "merge_pr"
    /\ RevisionSingle(v, MergeQuery(KeyOf(args)), MergeReplies(KeyOf(args)), "raw")

\* comment_on_pr of revision v
RevisionComment(v) ==
    /\ op = "comment_on_pr"
    /\ RevisionSingle(v, CommentQuery(args), FaultReplies, "raw")

\* delete_comment of revision v
RevisionDeleteComment(v) ==
    /\ op = "delete_comment"
    /\ RevisionSingle(v, DeleteCommentQuery(args), FaultReplies, "raw")

\* update_comment of revision v
RevisionUpdateComment(v) ==
    /\ op = "update_comment"
    /\ RevisionSingle(v, UpdateCommentQuery(args), FaultReplies, "raw")

\* create_pr of revision v: the id of the new pull request, or the body and
\* the status code in raw mode
RevisionCreate(v) ==
    /\ op = "create_pr"
    /\ RevisionSingle(v, CreatePrQuery(args), CreateReplies,
                      IF args.simple THEN "create" ELSE "raw")

NextRevisions ==
    \E v \in Revisions :
        \/ RevisionBegin(v) \/ RevisionLookup(v) \/ RevisionMutate(v) \/ RevisionMerge(v)
        \/ RevisionLookupPr(v) \/ RevisionMergePr(v) \/ RevisionComment(v)
        \/ RevisionDeleteComment(v) \/ RevisionUpdateComment(v) \/ RevisionCreate(v)

SpecRevisions == InitRevisions /\ [][NextRevisions]_vars

-----------------------------------------------------------------------------
(* Properties of update_pr, checked under SpecUpdate *)

\* what the observed request i asked for
OperationName(i) == requests[i].json.operationName
Variables(i) == requests[i].json.variables

\* the positions of the UpdatePullInfo and MergePull requests of the call
Mutations == {i \in 1..Len(requests) : OperationName(i) = "UpdatePullInfo"}
Merges == {i \in 1..Len(requests) : OperationName(i) = "MergePull"}

\* the pull object in the body the upstream sent as reply i, read from the text
PullSent(i) == JsonLoads(received[i].response.text).value.v.data.v.pull.v

\* request i is the lookup of the call's pull request
IsLookup(i) ==
    /\ OperationName(i) = "PullForPullDetailsQuery"
    /\ Variables(i) = [ ownerName |-> args.repo_owner, repoName |-> args.repo_name,
                        pullId |-> IntToStr(args.pr_id) ]

\* request i is a merge of the call's pull request
IsMergeOfKey(i) ==
    /\ OperationName(i) = "MergePull"
    /\ Variables(i) = [ ownerName |-> args.repo_owner, repoName |-> args.repo_name,
                        pullId |-> IntToStr(args.pr_id) ]

\* the optional arguments the caller gave
GivenArgs == {f \in {"pr_state", "pr_title", "pr_message"} : args[f] # PyNone}

\* C1: an update_pr call whose pr_state, pr_title and pr_message are all None
\* ends with NeedAtLeastOneOptionalArgumentException and never issues a
\* request, lookup or mutation.
C1_NoArgumentNoRequest ==
    (op = "update_pr" /\ GivenArgs = {}) =>
        /\ requests = <<>>
        /\ invocations = 0
        /\ pc \in {"start", "done"}
        /\ pc = "done" =>
             result = Raise("NeedAtLeastOneOptionalArgumentException", <<MsgNeedArgument>>)

C1_Witness ==
    /\ op = "update_pr" /\ GivenArgs = {}
    /\ pc = "done"
    /\ result.kind = "raise"
    /\ requests = <<>>

\* C2 as stated: when pr_state is "Merged", the UpdatePullInfo mutation sent
\* has a null state and is followed by exactly one MergePull of the same key.
C2_Original ==
    (op = "update_pr" /\ args.pr_state = PyStr("Merged")) =>
        \A i \in Mutations :
            /\ Variables(i).state = PyNone
            /\ pc = "done" =>
                 /\ Cardinality(Merges) = 1
                 /\ \A j \in Merges : j > i /\ IsMergeOfKey(j)

\* C2 amended: when pr_state is "Merged", a lookup always precedes the
\* UpdatePullInfo mutation, the mutation sent carries as state the state that
\* lookup returned (not the caller's "Merged", and not null), a mutation that
\* succeeds is followed by exactly one MergePull of the same key, and a
\* mutation that fails is followed by none.
C2_MergedDeferred ==
    (op = "update_pr" /\ args.pr_state = PyStr("Merged")) =>
        /\ \A i \in Mutations :
             /\ i = 2
             /\ IsLookup(1)
             /\ Variables(i).state = PullSent(1).state
             /\ Variables(i)._id = "repositoryOwners/" \o args.repo_owner \o "/repositories/"
                                     \o args.repo_name \o "/pulls/" \o IntToStr(args.pr_id)
        /\ \A j \in Merges : j = 3 /\ IsMergeOfKey(j) /\ 2 \in Mutations
        /\ (pc = "done" /\ Len(requests) = 2) =>
             /\ Merges = {}
             /\ result.kind = "raise" /\ result = outcome
        /\ (pc = "done" /\ result.kind = "return") => Merges = {3}

C2_Witness ==
    /\ op = "update_pr" /\ args.pr_state = PyStr("Merged")
    /\ args.pr_title # PyNone /\ args.pr_message # PyNone
    /\ pc = "done"
    /\ result.kind = "return"
    /\ Len(requests) = 3
    /\ Variables(2).state = PyStr("Open")
    /\ IsMergeOfKey(3)

\* C3 as stated: when exactly one of pr_state, pr_title, pr_message is given,
\* a lookup precedes the mutation, the two absent fields of the mutation equal
\* the lookup's values and the given field equals the caller's value.
C3_Original ==
    (op = "update_pr" /\ Cardinality(GivenArgs) = 1) =>
        \A i \in Mutations :
            /\ i = 2
            /\ IsLookup(1)
            /\ Variables(i).state =
                 IF args.pr_state = PyNone THEN PullSent(1).state ELSE args.pr_state
            /\ Variables(i).title =
                 IF args.pr_title = PyNone THEN PullSent(1).title ELSE args.pr_title
            /\ Variables(i).description =
                 IF args.pr_message = PyNone THEN PullSent(1).description ELSE args.pr_message

\* C3 amended: when exactly one of pr_state, pr_title, pr_message is given, a
\* lookup precedes the mutation, the two absent fields of the mutation equal
\* the lookup's values and the given field equals the caller's value, except
\* that a given pr_state of "Merged" is not sent: the mutation then carries
\* the state the lookup returned.
C3_BackfillFromLookup ==
    (op = "update_pr" /\ Cardinality(GivenArgs) = 1) =>
        \A i \in Mutations :
            /\ i = 2
            /\ IsLookup(1)
            /\ Variables(i).state =
                 IF args.pr_state \in {PyNone, PyStr("Merged")}
                 THEN PullSent(1).state ELSE args.pr_state
            /\ Variables(i).title =
                 IF args.pr_title = PyNone THEN PullSent(1).title ELSE args.pr_title
            /\ Variables(i).description =
                 IF args.pr_message = PyNone THEN PullSent(1).description ELSE args.pr_message

C3_Witness ==
    /\ op = "update_pr" /\ GivenArgs = {"pr_title"}
    /\ pc = "done"
    /\ result.kind = "return"
    /\ Len(requests) = 2
    /\ Variables(2).title = PyStr("New title")
    /\ Variables(2).state = PyStr("Closed")
    /\ Variables(2).description = PyNone

\* C20: an empty-string field counts as given.  An update_pr call with
\* pr_message = "" and the other two None does not end with the argument
\* error; its mutation comes second, after the lookup of the pull request,
\* and carries description "" with the state and the title of the lookup.
C20_EmptyMessageIsGiven ==
    ( /\ op = "update_pr"
      /\ args.pr_message = PyStr("") /\ args.pr_state = PyNone /\ args.pr_title = PyNone ) =>
        /\ ~(result.kind = "raise" /\ result.exc = "NeedAtLeastOneOptionalArgumentException")
        /\ pc # "start" => Len(requests) >= 1 \/ pc = "lookup"
        /\ \A i \in Mutations :
             /\ i = 2
             /\ IsLookup(1)
             /\ Variables(i).description = PyStr("")
             /\ Variables(i).state = PullSent(1).state
             /\ Variables(i).title = PullSent(1).title

C20_Witness ==
    /\ op = "update_pr"
    /\ args.pr_message = PyStr("") /\ args.pr_state = PyNone /\ args.pr_title = PyNone
    /\ pc = "done"
    /\ result.kind = "return"
    /\ Len(requests) = 2
    /\ PullSent(1).description = PyStr("Old message")
    /\ Variables(2).description = PyStr("")
    /\ Variables(2).title = PyStr("Old title")

-----------------------------------------------------------------------------
(* Properties of perform_api_operation, checked under SpecTransport *)

\* the last invocation obtained a response
GotResponse == op = "perform_api_operation" /\ invocations > 0 /\ locals.reply.kind = "response"

\* the last invocation raised APIServerException with message msg
RaisedApiError(msg) ==
    outcome.kind = "raise" /\ outcome.exc = "APIServerException" /\ outcome.args[1] = msg

\* the four conditions of the classification, read off a response
CondUnreachable(response) ==
    response.text \in {"upstream request timeout", "  upstream request timeout\n"}
CondUndecodable(response) == \A p \in JsonTable : p[1] # response.text
CondBadStatus(response) == response.status_code \notin {200, 301, 302, 418}
CondErrorList(response) ==
    \E p \in JsonTable : p[1] = response.text /\ p[2].type = "dict" /\ "errors" \in DOMAIN p[2].v

\* C5: when the response body is exactly "upstream request timeout", the
\* invocation raises the service-unavailable error with the raw body, the
\* status code and the response, whatever the status code, and json.loads is
\* not called.
C5_UnreachableNotDecoded ==
    [][ ( /\ op = "perform_api_operation"
          /\ invocations' = invocations + 1
          /\ locals'.reply.kind = "response"
          /\ locals'.reply.response.text = "upstream request timeout" )
        => ( /\ outcome' = Raise("APIServerException",
                                 << MsgUnreachable, PyStr("upstream request timeout"),
                                    locals'.reply.response.status_code,
                                    locals'.reply.response >>)
             /\ result' = outcome'
             /\ json_loads_calls' = json_loads_calls ) ]_vars

C5_Witness ==
    /\ GotResponse
    /\ locals.reply.response = [text |-> "upstream request timeout", status_code |-> 200]
    /\ RaisedApiError(MsgUnreachable)
    /\ json_loads_calls = 0

\* C6: a response is classified by the first condition that holds, in the
\* order unreachable literal, undecodable body, disallowed status code,
\* top-level error list; a response meeting several raises the error of the
\* earliest.
C6_ClassificationOrder ==
    GotResponse =>
        LET response == locals.reply.response
            c1 == CondUnreachable(response)
            c2 == CondUndecodable(response)
            c3 == CondBadStatus(response)
            c4 == CondErrorList(response) IN
        /\ c1 => RaisedApiError(MsgUnreachable)
        /\ (~c1 /\ c2) => RaisedApiError(MsgNonJson)
        /\ (~c1 /\ ~c2 /\ c3) => RaisedApiError(MsgStatus)
        /\ (~c1 /\ ~c2 /\ ~c3 /\ c4) => RaisedApiError(MsgErrors)

C6_Witness ==
    /\ GotResponse
    /\ CondErrorList(locals.reply.response)
    /\ CondBadStatus(locals.reply.response)
    /\ RaisedApiError(MsgStatus)

\* C7: for a response whose body decodes to a JSON object and is not the
\* unreachable literal, the invocation returns iff the status code is one of
\* 200, 301, 302, 418 and the object has no "errors" entry, and it then
\* returns the decoded body and the status code of the response.
C7_SuccessIffAllowedAndNoErrors ==
    GotResponse =>
        \A p \in JsonTable :
            (p[1] = locals.reply.response.text /\ p[2].type = "dict") =>
                /\ outcome.kind = "return" <=>
                     ( /\ locals.reply.response.status_code \in {200, 301, 302, 418}
                       /\ "errors" \notin DOMAIN p[2].v )
                /\ outcome.kind = "return" =>
                     /\ outcome.value[1] = p[2]
                     /\ outcome.value[2] = locals.reply.response.status_code
                     /\ result = outcome

C7_Witness ==
    /\ GotResponse
    /\ locals.reply.response = [text |-> "{}", status_code |-> 418]
    /\ outcome.kind = "return"
    /\ outcome.value[1] = EmptyDict

\* C8: every invocation issues exactly one outbound request whatever its
\* outcome, and a failure goes to the caller as it is.
C8_OneRequestPerInvocation ==
    [][ (op = "perform_api_operation" /\ invocations' = invocations + 1) =>
          /\ Len(requests') = Len(requests) + 1
          /\ requests'[Len(requests')].json = args'.graphql_query
          /\ outcome'.kind = "raise" => result' = outcome' ]_vars

C8_Witness ==
    /\ op = "perform_api_operation"
    /\ invocations = 2
    /\ Len(requests) = 2
    /\ locals.reply = HttpFailure
    /\ result.kind = "raise"

\* C9 as stated: every invocation ends in success or in an
\* APIServerException, also when no response is obtained and when the body
\* decodes to something that is no JSON object.
C9_OnlyApiServerException ==
    (op = "perform_api_operation" /\ invocations > 0) =>
        \/ outcome.kind = "return"
        \/ outcome.kind = "raise" /\ outcome.exc = "APIServerException"

\* C10 as stated: every error an invocation raises carries the four-part
\* payload (message, body, status code, response), the four kinds have
\* pairwise different messages, and the body is the raw text for the
\* unreachable and malformed kinds and the decoded body for the other two.
C10_FourPartPayload ==
    (op = "perform_api_operation" /\ invocations > 0 /\ outcome.kind = "raise") =>
        /\ Len(outcome.args) = 4
        /\ Cardinality({MsgUnreachable, MsgNonJson, MsgStatus, MsgErrors}) = 4
        /\ outcome.args[1] \in {MsgUnreachable, MsgNonJson, MsgStatus, MsgErrors}
        /\ outcome.args[3] = locals.reply.response.status_code
        /\ outcome.args[4] = locals.reply.response
        /\ outcome.args[1] \in {MsgUnreachable, MsgNonJson} =>
             outcome.args[2] = PyStr(locals.reply.response.text)
        /\ outcome.args[1] \in {MsgStatus, MsgErrors} =>
             \E p \in JsonTable : p[1] = locals.reply.response.text /\ outcome.args[2] = p[2]

-----------------------------------------------------------------------------
(* Properties of the generators, checked under SpecPaging *)

\* the body is a PullsForRepo page whose list member is no list of entries
IsOddPage(reply) == \E p \in OddPages : reply.response.text = OddPullsBody(p[1], p[2])

\* the entries and the cursor the upstream put in the body of a PullsForRepo
\* page; a list member that is no list holds no entry
PullsPage(reply) ==
    IF IsOddPage(reply)
    THEN << <<>>, (CHOOSE p \in OddPages : reply.response.text = OddPullsBody(p[1], p[2]))[2] >>
    ELSE CHOOSE p \in PrLists \X Cursors : reply.response.text = PullsBody(p[1], p[2])

\* the table list the upstream put in the body of a PullDiffForTableList page
DiffPage(reply) == CHOOSE t \in DiffPages : reply.response.text = DiffBody(t)

\* the reply is a page of the listing the generator draws from
IsPage(reply) ==
    /\ reply.kind = "response"
    /\ reply.response.status_code = 200
    /\ IF op = "list_prs"
       THEN \/ \E l \in PrLists, c \in Cursors : reply.response.text = PullsBody(l, c)
            \/ IsOddPage(reply)
       ELSE \E t \in DiffPages : reply.response.text = DiffBody(t)

\* the name a table of a page goes by, and the tables of a page that go by
\* the name asked for, whatever the case and the surrounding blanks
TableName(t) ==
    IF t.newTable # PyNone THEN t.newTable.v
    ELSE IF t.oldTable # PyNone THEN t.oldTable.v ELSE ""
Asked(tables) ==
    {i \in 1..Len(tables) : Lower(Strip(TableName(tables[i]))) = Lower(Strip(args.table_name.v))}
AskedTable(tables) == tables[CHOOSE i \in Asked(tables) : \A j \in Asked(tables) : i <= j]

\* the cursor of a page: of the listing, or of the rows of the table asked
\* for; a page without that table has no cursor
PageCursor(reply) ==
    IF op = "list_prs" THEN PullsPage(reply)[2]
    ELSE IF Asked(DiffPage(reply)) = {} THEN Absent
    ELSE AskedTable(DiffPage(reply)).cursor

\* a cursor that is missing or blank
BlankCursor(cursor) ==
    cursor = Absent \/ (cursor.type = "str" /\ cursor.v \in {"", " ", "\n"})

\* the number an identifier denotes; JSON true counts as 1
PullNumber(id) ==
    CASE id = PyStr("7") -> PyInt(7) [] id = PyStr("12") -> PyInt(12)
      [] id = PyTrue -> PyInt(1) [] OTHER -> PyNone

\* the milliseconds a createdAt member stands for; JSON true counts as 1
Millis(value) == IF value = PyTrue THEN 1 ELSE value.v

\* the normalized form of an entry of a listing page
NormalPr(pr) ==
    PyDict([ id |-> PullNumber(pr.pullId), state |-> pr.state, title |-> pr.title,
             message |-> pr.description, creator |-> PyStr("bob"),
             creation_date_unix |-> pr.createdAt,
             creation_date |-> [ type |-> "datetime", seconds |-> Millis(pr.createdAt) \div 1000,
                                 millis |-> Millis(pr.createdAt) % 1000 ],
             owner |-> PyStr("alice"), repo |-> PyStr("corona") ])

\* the normalized form of a row of a table diff
NormalSide(side) ==
    IF side = PyNone THEN PyNone
    ELSE PyKeyed([name \in {PyStr("id"), PyStr("val")} |->
                    PyStr(side.v[IF name = PyStr("id") THEN 1 ELSE 2])])
NormalRow(row) ==
    PyDict([ added |-> NormalSide(row.added), deleted |-> NormalSide(row.deleted),
             source_repo_owner |-> PyStr("alice"), source_repo_name |-> PyStr("corona"),
             source_commit_id |-> PyStr("c0ffee"), destination_repo_owner |-> PyStr("bob"),
             destination_repo_name |-> PyStr("corona"),
             destination_commit_id |-> PyStr("decaf") ])

\* the items of a page, in the order of the page
PageItems(reply) ==
    IF op = "list_prs"
    THEN [i \in 1..Len(PullsPage(reply)[1]) |-> NormalPr(PullsPage(reply)[1][i])]
    ELSE IF Asked(DiffPage(reply)) = {} THEN <<>>
    ELSE [ i \in 1..Len(AskedTable(DiffPage(reply)).rows) |->
             NormalRow(AskedTable(DiffPage(reply)).rows[i]) ]

\* the number of items of a page
PageSize(reply) ==
    IF op = "list_prs" THEN Len(PullsPage(reply)[1])
    ELSE IF Asked(DiffPage(reply)) = {} THEN 0
    ELSE Len(AskedTable(DiffPage(reply)).rows)

\* the items of a sequence of pages, page after page, and their number
RECURSIVE ItemsOf(_)
ItemsOf(pages) ==
    IF pages = <<>> THEN <<>> ELSE PageItems(pages[1]) \o ItemsOf(Tail(pages))
RECURSIVE SizeOf(_)
SizeOf(pages) ==
    IF pages = <<>> THEN 0 ELSE PageSize(pages[1]) + SizeOf(Tail(pages))

\* the N-th page is the first with a missing or blank cursor, exactly N
\* requests were issued, and the yielded sequence is the items of the pages
\* 1..N in page order then in-page order
DrainedInOrder ==
    /\ Len(received) >= 1
    /\ \A i \in 1..Len(received) : IsPage(received[i])
    /\ BlankCursor(PageCursor(received[Len(received)]))
    /\ \A i \in 1..(Len(received) - 1) : ~BlankCursor(PageCursor(received[i]))
    /\ Len(requests) = Len(received)
    /\ Len(yielded) = SizeOf(received)
    /\ yielded = ItemsOf(received)

\* C4 as stated: a fully consumed list_prs or pull_pr_diff generator issued
\* exactly N requests, N the first page with a missing or blank cursor, and
\* yielded the items of the pages 1..N in page order then in-page order, as
\* many as the page sizes sum to; list_prs in either mode.
C4_Original ==
    (pc = "exhausted" /\ op \in {"list_prs", "pull_pr_diff"}) => DrainedInOrder

\* C4 amended: the same for the generators in simplified mode.  A fully
\* consumed list_prs(simple=True) or pull_pr_diff generator issued exactly N
\* requests, N the first page whose cursor is missing or blank, and yielded
\* the normalized items of the pages 1..N in page order then in-page order,
\* as many as the page sizes sum to; and no generator in simplified mode
\* asks for a page after a page whose cursor is missing or blank.
C4_SimpleDrainedInOrder ==
    (op \in {"list_prs", "pull_pr_diff"} /\ args.simple) =>
        /\ pc = "exhausted" => DrainedInOrder
        /\ \A i \in 1..(Len(received) - 1) :
             IsPage(received[i]) /\ ~BlankCursor(PageCursor(received[i]))

\* three entries drawn from two pages, the second with a blank cursor
C4_Witness ==
    /\ op = "list_prs"
    /\ args.simple
    /\ pc = "exhausted"
    /\ Len(received) = 2
    /\ PageCursor(received[1]) = PyStr("tok-2")
    /\ PageCursor(received[2]) = PyStr(" ")
    /\ Len(requests) = 2
    /\ requests[2].json.variables.pageToken = PyStr("tok-2")
    /\ Len(yielded) = 3

\* rows of the table asked for drawn from two pages of a diff
C4_DiffDrained ==
    /\ op = "pull_pr_diff"
    /\ pc = "exhausted"
    /\ Len(received) = 2
    /\ Len(yielded) = 3
    /\ PageCursor(received[2]) = Absent

\* C17: a pull_pr_diff generator in simplified mode whose table_name is
\* absent or no string fails at its first step with
\* NeedAtLeastOneOptionalArgumentException, and no request is ever issued.
C17_NoTableNameNoRequest ==
    (op = "pull_pr_diff" /\ args.simple /\ args.table_name.type # "str") =>
        /\ requests = <<>>
        /\ invocations = 0
        /\ yielded = <<>>
        /\ pc \in {"created", "failed"}
        /\ pc = "failed" =>
             result = Raise("NeedAtLeastOneOptionalArgumentException", <<MsgNeedTableName>>)

C17_Witness ==
    /\ op = "pull_pr_diff" /\ args.simple /\ args.table_name = PyInt(5)
    /\ pc = "failed"
    /\ result.exc = "NeedAtLeastOneOptionalArgumentException"
    /\ requests = <<>>

\* C16 as stated: a pull_pr_diff generator in raw mode (simple = False)
\* yields nothing and, whatever the table_name and whatever the upstream
\* answers, ends with NotImplementedException.
C16_RawModeNotImplemented ==
    (op = "pull_pr_diff" /\ ~args.simple) =>
        /\ yielded = <<>>
        /\ pc # "exhausted"
        /\ pc = "failed" => result = Raise("NotImplementedException", <<MsgNotImplemented>>)

\* the tables of a page whose name equals the name asked for when only the
\* case is ignored
AskedExactly(tables) ==
    {i \in 1..Len(tables) : Lower(TableName(tables[i])) = Lower(args.table_name.v)}

\* a pull_pr_diff generator in simplified mode that received its first page
FirstDiffPage ==
    /\ op = "pull_pr_diff" /\ args.simple /\ args.table_name.type = "str"
    /\ Len(received) >= 1
    /\ IsPage(received[1])

\* C15 as stated: the table is the first of the first page whose name (the
\* new table's, else the old table's) equals the name asked for, case
\* ignored and otherwise exactly; when the first page has no such table the
\* generator yields nothing and asks for no second page.
C15_Original ==
    (FirstDiffPage /\ AskedExactly(DiffPage(received[1])) = {}) =>
        /\ yielded = <<>>
        /\ Len(requests) = 1

\* every reply list_prs received is a page whose cursor is a token
AllCursorsTokens ==
    \A i \in 1..Len(received) :
        /\ IsPage(received[i])
        /\ PageCursor(received[i]).type = "str"
        /\ ~BlankCursor(PageCursor(received[i]))

\* C13: list_prs has no page bound and no loop detection.  As long as every
\* page carries a non-blank cursor, the same one repeated included, the
\* generator is never exhausted: it has sent one request per page and, once
\* the entries of the last page are drawn, goes on to request the next page
\* with the last cursor bound.  It is exhausted only behind a page whose
\* cursor is missing or blank, and it stops otherwise only with an error.
C13_NoPageBound ==
    op = "list_prs" =>
        /\ AllCursorsTokens =>
             /\ pc # "exhausted"
             /\ pc = "failed" => result.kind = "raise"
             /\ pc \in {"running", "suspended"} =>
                  /\ Len(requests) = Len(received)
                  /\ Len(received) >= 1 =>
                       /\ locals.has_next_page
                       /\ locals.graphql_query.variables.pageToken
                            = PageCursor(received[Len(received)])
        /\ pc = "exhausted" =>
             /\ Len(received) >= 1
             /\ IsPage(received[Len(received)])
             /\ BlankCursor(PageCursor(received[Len(received)]))
        /\ \A i \in 2..Len(requests) :
             requests[i].json.variables.pageToken = PageCursor(received[i - 1])

\* the upstream answered every request with the cursor tok-2; the generator
\* has sent as many requests as the model allows and is about to send the next
C13_Witness ==
    /\ op = "list_prs"
    /\ Len(received) = MaxPages
    /\ \A i \in 1..Len(received) :
         IsPage(received[i]) /\ PageCursor(received[i]) = PyStr("tok-2")
    /\ Len(requests) = MaxPages
    /\ requests[MaxPages].json.variables.pageToken = PyStr("tok-2")
    /\ pc = "running"
    /\ locals.index = Len(locals.items)
    /\ locals.has_next_page

-----------------------------------------------------------------------------
(* Properties of list_pr_change_log, checked under SpecChangeLog *)

\* the body is a response whose details member is no list of entries
IsOddDetails(reply) == \E d \in OddDetails : reply.response.text = OddDetailsBody(d)

\* the entries and the cursor the upstream put in the body of a
\* PullDetailsForPullDetails response; a details member that is no list holds
\* no entry
DetailsPage(reply) ==
    IF IsOddDetails(reply) THEN << <<>>, Absent >>
    ELSE CHOOSE p \in DetailLists \X DetailsCursors :
             reply.response.text = DetailsBody(p[1], p[2])

IsDetailsPage(reply) ==
    /\ reply.kind = "response"
    /\ reply.response.status_code = 200
    /\ \/ \E e \in DetailLists, c \in DetailsCursors : reply.response.text = DetailsBody(e, c)
       \/ IsOddDetails(reply)

\* the value of a member of an upstream entry
Member(entry, name) == EntryValue(entry).v[name]

\* C12 as stated: list_pr_change_log runs the cursor loop of list_prs.  A
\* starting cursor given by the caller is bound into the first request, and
\* the generator is exhausted only after a page whose cursor is missing or
\* blank.
C12_Original ==
    op = "list_pr_change_log" =>
        /\ (args.page_token # PyNone /\ Len(requests) >= 1) =>
             /\ "pageToken" \in DOMAIN requests[1].json.variables
             /\ requests[1].json.variables.pageToken = args.page_token
        /\ (pc = "exhausted" /\ args.simple) =>
             BlankCursor(DetailsPage(received[Len(received)])[2])

\* C12: list_pr_change_log sends one request and no more.  The request binds
\* the owner, the repository and the pull identifier only: the page_token of
\* the caller is never sent, and a cursor in the response is never followed.
\* In simple mode an exhausted generator has yielded one entry per entry of
\* that single response, in order; in raw mode it has yielded the decoded
\* response and its status code once.
C12_SingleRequest ==
    op = "list_pr_change_log" =>
        /\ Len(requests) <= 1
        /\ Len(received) = Len(requests)
        /\ \A i \in 1..Len(requests) :
             /\ DOMAIN requests[i].json.variables = {"ownerName", "repoName", "pullId"}
             /\ requests[i].json.variables.pullId = "7"
        /\ (pc = "exhausted" /\ args.simple) =>
             /\ Len(received) = 1
             /\ IsDetailsPage(received[1])
             /\ Len(yielded) = Len(DetailsPage(received[1])[1])
             /\ \A i \in 1..Len(yielded) :
                  yielded[i].v.id = Member(DetailsPage(received[1])[1][i], "_id")
        /\ (pc = "exhausted" /\ ~args.simple) =>
             /\ Len(received) = 1
             /\ Len(yielded) = 1
             /\ yielded[1].v[2] = received[1].response.status_code

\* the caller gave a starting cursor and the single response carried the
\* cursor tok-2 next to three entries: the generator yielded the three and
\* is exhausted after one request
C12_Witness ==
    /\ op = "list_pr_change_log"
    /\ args.simple
    /\ args.page_token = PyStr("tok-1")
    /\ pc = "exhausted"
    /\ Len(requests) = 1
    /\ IsDetailsPage(received[1])
    /\ DetailsPage(received[1])[2] = PyStr("tok-2")
    /\ Len(DetailsPage(received[1])[1]) = 3
    /\ Len(yielded) = 3

\* the four discriminator tags of the upstream
KnownTags == {"PullDetailComment", "PullDetailCommit", "PullDetailSummary", "PullDetailLog"}

\* the entries of the response whose tag is none of the four
UnknownEntries(reply) ==
    {i \in 1..Len(DetailsPage(reply)[1]) :
        Member(DetailsPage(reply)[1][i], "__typename") \notin {PyStr(tag) : tag \in KnownTags}}

\* C19 as stated: normalization never fails on an entry whose tag is none of
\* the four upstream tags.  The generator does not fail at such an entry, and
\* each one it yielded has the raw tag as its type and the common fields only.
C19_UnknownKindsPass ==
    (op = "list_pr_change_log" /\ args.simple /\ Len(received) = 1 /\ IsDetailsPage(received[1])) =>
        /\ pc = "failed" => (locals.index + 1) \notin UnknownEntries(received[1])
        /\ \A i \in UnknownEntries(received[1]) :
             i <= Len(yielded) =>
                /\ yielded[i].v.type = Member(DetailsPage(received[1])[1][i], "__typename")
                /\ DOMAIN yielded[i].v = {"id", "type", "creation_date_unix", "creation_date"}

-----------------------------------------------------------------------------
(* Properties of pull_pr_diff_summary, checked under SpecSummary *)

\* the summary the upstream put in the body of a DiffSummaryAsync response
SummaryOf(reply) == CHOOSE s \in DiffSummaries : reply.response.text = SummaryBody(s)

IsSummary(reply) ==
    /\ reply.kind = "response"
    /\ reply.response.status_code = 200
    /\ \E s \in DiffSummaries : reply.response.text = SummaryBody(s)

\* C14 as stated: whenever the simplified call returns a dictionary, its
\* rows.unmodified is rowCount - rowsModified of the response (10 and 3 give
\* 7), whatever the other members of the response are.
C14_UnmodifiedIsComputed ==
    ( /\ op = "pull_pr_diff_summary" /\ args.simple /\ pc = "done"
      /\ result.kind = "return" /\ IsSummary(received[1]) ) =>
        result.value.v.rows.v.unmodified.v
          = Member(SummaryOf(received[1]), "rowCount").v
            - Member(SummaryOf(received[1]), "rowsModified").v

-----------------------------------------------------------------------------
(* Properties of the construction, checked under SpecConstruct *)

\* the construction ended with the configuration error
ConfigurationError == result.kind = "raise" /\ result.exc = "NoAuthException"

\* the path given as token file does not exist
TokenFileMissing == args.token_file # PyNone /\ ~PathExists(args.token_file.v)

\* a failed construction leaves no object, and a request is sent only through
\* an object and carries that object's token
NoCallWithoutClient ==
    /\ pc = "failed" => (self = NoClient /\ requests = <<>>)
    /\ pc = "new" => requests = <<>>
    /\ \A i \in 1..Len(requests) :
         /\ pc = "constructed"
         /\ requests[i].headers.Cookie = "dolthubToken=" \o self.token

\* C18 as stated: the construction ends with NoAuthException when neither a
\* token nor a token file is given, and whenever the token file given does
\* not exist; a failed construction gives no object and no request is sent.
C18_Original ==
    (op = "__init__" /\ pc # "new") =>
        /\ (args.token = PyNone /\ args.token_file = PyNone) => ConfigurationError
        /\ TokenFileMissing => ConfigurationError
        /\ NoCallWithoutClient

\* C18: the construction ends with NoAuthException when neither a token nor
\* a token file is given, and when no token is given and the token file given
\* does not exist.  When a token is given the file is not looked at: the
\* object holds the token given, whether the path exists or not.  A failed
\* construction gives no object and no request is sent; every request carries
\* the token of the object.
C18_ConfigurationError ==
    op = "__init__" =>
        /\ pc # "new" =>
             /\ (args.token = PyNone /\ args.token_file = PyNone) => ConfigurationError
             /\ (args.token = PyNone /\ TokenFileMissing) => ConfigurationError
             /\ args.token # PyNone =>
                  /\ pc = "constructed"
                  /\ self.token = args.token.v
             /\ ConfigurationError => pc = "failed"
        /\ NoCallWithoutClient

\* a token and a path that does not exist were given: the construction gave
\* an object and the caller has sent a request with the token
C18_Witness ==
    /\ op = "__init__"
    /\ args.token = PyStr("secret-token")
    /\ args.token_file = PyStr("missing.txt")
    /\ pc = "constructed"
    /\ Len(requests) = 1
    /\ requests[1].headers.Cookie = "dolthubToken=secret-token"

-----------------------------------------------------------------------------
(* Properties of concurrent update_pr calls, checked under SpecRace *)

IsLookupRequest(request) == request.json.operationName = "PullForPullDetailsQuery"
IsUpdateRequest(request) == request.json.operationName = "UpdatePullInfo"

\* both callers sent their lookup before either sent its mutation, and the
\* upstream answered all four requests
LookupsBeforeMutations ==
    /\ Len(requests) = 4
    /\ IsLookupRequest(requests[1]) /\ IsLookupRequest(requests[2])
    /\ IsUpdateRequest(requests[3]) /\ IsUpdateRequest(requests[4])
    /\ \A i \in 1..4 : received[i].kind = "response"

\* C11: update_pr is a read-modify-write that is not atomic.  When both
\* callers have looked the pull request up before either mutation, each call
\* that has ended returned normally, and the upstream holds what the second
\* mutation wrote: the value given by its caller and, in place of the first
\* caller's change, the stale value the second caller had looked up.
C11_LostUpdate ==
    (op = "update_pr" /\ LookupsBeforeMutations) =>
        /\ \A c \in RaceCallers :
             /\ pc[c] \in {"update_in_flight", "done"}
             /\ pc[c] = "done" => result[c].kind = "return"
        /\ remote = ApplyUpdate(remote, requests[4].json.variables)
        /\ IF requests[3].json.variables.title = PyStr("New title")
           THEN /\ remote.title = locals[2].existing_values.v.title
                /\ remote.title # PyStr("New title")
                /\ remote.description = PyStr("New message")
           ELSE /\ remote.description = locals[1].existing_values.v.message
                /\ remote.description # PyStr("New message")
                /\ remote.title = PyStr("New title")

\* both lookups, then the mutation of the title, then the mutation of the
\* message: both calls returned and the upstream holds the old title again
C11_Witness ==
    /\ op = "update_pr"
    /\ LookupsBeforeMutations
    /\ requests[3].json.variables.title = PyStr("New title")
    /\ requests[4].json.variables.title = PyStr("Old title")
    /\ \A c \in RaceCallers : pc[c] = "done" /\ result[c].kind = "return"
    /\ remote.title = PyStr("Old title")
    /\ remote.description = PyStr("New message")

-----------------------------------------------------------------------------
(* The cursor of list_prs, checked under SpecPaging *)

\* C21: the first request of list_prs carries the starting cursor the caller
\* gave, and no pageToken variable when the caller gave none; every later
\* request carries the cursor of the page received just before it, which was
\* a token; and after a page whose cursor is missing or blank no request
\* follows.
C21_CursorThreading ==
    op = "list_prs" =>
        /\ Len(requests) >= 1 =>
             IF args.page_token = PyNone
             THEN DOMAIN requests[1].json.variables = {"ownerName", "repoName"}
             ELSE /\ DOMAIN requests[1].json.variables = {"ownerName", "repoName", "pageToken"}
                  /\ requests[1].json.variables.pageToken = args.page_token
        /\ \A i \in 2..Len(requests) :
             /\ IsPage(received[i - 1])
             /\ ~BlankCursor(PageCursor(received[i - 1]))
             /\ requests[i].json.variables.pageToken = PageCursor(received[i - 1])
        /\ \A i \in 1..Len(received) :
             (IsPage(received[i]) /\ BlankCursor(PageCursor(received[i]))) =>
                 /\ Len(requests) = i
                 /\ pc \notin {"created"}
                 /\ pc = "running" => ~locals.has_next_page

\* the caller started at tok-1, the first page gave tok-2 and the second an
\* empty cursor: two requests, with tok-1 and with tok-2, and the generator
\* is exhausted
C21_Witness ==
    /\ op = "list_prs"
    /\ args.page_token = PyStr("tok-1")
    /\ Len(received) = 2
    /\ IsPage(received[1]) /\ PageCursor(received[1]) = PyStr("tok-2")
    /\ IsPage(received[2]) /\ PageCursor(received[2]) = PyStr("")
    /\ requests[1].json.variables.pageToken = PyStr("tok-1")
    /\ requests[2].json.variables.pageToken = PyStr("tok-2")
    /\ pc = "exhausted"

-----------------------------------------------------------------------------
(* Laziness of the generators, checked under SpecPaging *)

\* the items a page gives its consumer: its entries in simplified mode, the
\* page itself in raw mode
Delivered(reply) == IF args.simple THEN PageSize(reply) ELSE 1

RECURSIVE DeliveredBy(_)
DeliveredBy(pages) ==
    IF pages = <<>> THEN 0 ELSE Delivered(pages[1]) + DeliveredBy(Tail(pages))

\* nothing is requested before the first next(); a request is sent only when
\* the items of every earlier page have been delivered; and a generator that
\* waits at a yield has received a page for every request
LazyUnbuffered ==
    /\ pc = "created" => (requests = <<>> /\ yielded = <<>>)
    /\ Len(requests) >= 2 =>
         /\ \A i \in 1..(Len(requests) - 1) : IsPage(received[i])
         /\ Len(yielded) >= DeliveredBy(SubSeq(received, 1, Len(requests) - 1))
    /\ pc = "suspended" =>
         /\ Len(requests) = Len(received)
         /\ \A i \in 1..Len(received) : IsPage(received[i])
         /\ Len(yielded) <= DeliveredBy(received)
         /\ Len(yielded) > DeliveredBy(SubSeq(received, 1, Len(received) - 1))

\* C22 as stated: the generators are lazy and unbuffered, and a consumer that
\* stops after the first item has caused exactly one request.
C22_Original ==
    op \in {"list_prs", "pull_pr_diff"} =>
        /\ LazyUnbuffered
        /\ (Len(yielded) = 1 /\ pc = "suspended") => Len(requests) = 1

\* C22: the generators are lazy and unbuffered.  No request is sent before
\* the consumer asks for the first item; the request for page k+1 is sent
\* only when every item of the pages 1..k has been delivered and the
\* consumer has asked for one more.  A consumer that stops after the first
\* item has caused one request per page up to the first page that holds an
\* item: the pages before it were empty, and it is one request when the
\* first page holds an item and always one in raw mode.
C22_LazyUnbuffered ==
    op \in {"list_prs", "pull_pr_diff"} =>
        /\ LazyUnbuffered
        /\ (Len(yielded) = 1 /\ pc = "suspended") =>
             /\ \A i \in 1..(Len(requests) - 1) : Delivered(received[i]) = 0
             /\ Delivered(received[Len(requests)]) >= 1
             /\ (~args.simple \/ Delivered(received[1]) >= 1) => Len(requests) = 1

\* the first page of the listing was empty and carried a token: the consumer
\* holds its first item, from the second page, after two requests
C22_Witness ==
    /\ op = "list_prs"
    /\ args.simple
    /\ pc = "suspended"
    /\ Len(yielded) = 1
    /\ Len(requests) = 2
    /\ PageSize(received[1]) = 0
    /\ PageCursor(received[1]) = PyStr("tok-2")
    /\ PageSize(received[2]) = 2

-----------------------------------------------------------------------------
(* Order of the requests of update_pr, checked under SpecUpdate *)

\* perform_api_operation returned normally on request i and its reply
Succeeded(i) == PerformApiOperation(self, requests[i].json, received[i]).outcome.kind = "return"

\* the lookup at request i gave lookup_pr its simplified values
LookupSucceeded(i) ==
    /\ Succeeded(i)
    /\ LookupSimple(PerformApiOperation(self, requests[i].json, received[i]).outcome.value[1]).kind
         = "return"

\* C23: update_pr sends its requests in the order lookup, UpdatePullInfo,
\* MergePull, each at most once: the lookup first when there is one, the
\* merge last and only for "Merged".  A request is sent only when the step
\* before it ended normally, so a failed lookup is followed by no mutation
\* and a failed mutation by no merge; and the error the call ends with is the
\* error of the step that failed, unchanged.
C23_OrderAndFirstFailure ==
    op = "update_pr" =>
        /\ Len(requests) <= 3 /\ Len(received) = Len(requests)
        /\ \A i \in 1..Len(requests) :
             /\ IsLookup(i) => i = 1
             /\ i \in Mutations => (i = 1 \/ (i = 2 /\ IsLookup(1) /\ LookupSucceeded(1)))
             /\ i \in Merges =>
                  /\ i = Len(requests) /\ i >= 2 /\ (i - 1) \in Mutations
                  /\ Succeeded(i - 1)
                  /\ args.pr_state = PyStr("Merged")
             /\ IsLookup(i) \/ i \in Mutations \/ i \in Merges
        /\ (pc = "done" /\ result.kind = "raise" /\ requests # <<>>) =>
             /\ IF IsLookup(Len(requests))
                THEN /\ ~LookupSucceeded(Len(requests))
                     /\ result = IF Succeeded(Len(requests))
                                 THEN LookupSimple(outcome.value[1])
                                 ELSE outcome
                ELSE ~Succeeded(Len(requests)) /\ result = outcome
        /\ (pc = "done" /\ result.kind = "return") =>
             /\ \A i \in 1..Len(requests) : Succeeded(i)
             /\ Mutations # {}
             /\ (args.pr_state = PyStr("Merged")) = (Merges # {})

\* a call to "Merged" whose lookup succeeded and whose mutation the upstream
\* answered with status 500: the call ended with that error after two
\* requests, without a merge
C23_Witness ==
    /\ op = "update_pr"
    /\ args.pr_state = PyStr("Merged")
    /\ pc = "done"
    /\ Len(requests) = 2
    /\ IsLookup(1) /\ 2 \in Mutations
    /\ received[2].kind = "response" /\ received[2].response.status_code = 500
    /\ result.kind = "raise" /\ result.exc = "APIServerException"
    /\ result = outcome

-----------------------------------------------------------------------------
(* Failure of a page of list_prs, checked under SpecPaging *)

\* what the consumer of a raw listing gets for a page: the decoded body and
\* the status code
RawPage(reply) ==
    [type |-> "tuple", v |-> <<JsonLoads(reply.response.text).value, reply.response.status_code>>]

\* C24: when perform_api_operation fails on page k of a list_prs generator,
\* page k is the last page requested, the generator has failed with that
\* error, and the consumer has received what the pages 1..k-1 hold, in
\* order: their normalized entries in simplified mode, the pages themselves
\* in raw mode.
C24_FailureOnPageK ==
    op = "list_prs" =>
        \A k \in 1..Len(received) :
            ~Succeeded(k) =>
                /\ k = Len(received) /\ k = Len(requests)
                /\ pc = "failed"
                /\ result.kind = "raise" /\ result = outcome
                /\ \A i \in 1..(k - 1) : IsPage(received[i])
                /\ args.simple => yielded = ItemsOf(SubSeq(received, 1, k - 1))
                /\ ~args.simple =>
                     /\ Len(yielded) = k - 1
                     /\ \A i \in 1..(k - 1) : yielded[i] = RawPage(received[i])

\* the first page gave two entries and a token, the request for the second
\* page met no upstream: the consumer holds the two entries and the error
C24_Witness ==
    /\ op = "list_prs"
    /\ args.simple
    /\ Len(received) = 2
    /\ IsPage(received[1]) /\ PageSize(received[1]) = 2
    /\ received[2] = HttpFailure
    /\ Len(yielded) = 2
    /\ pc = "failed"
    /\ result.exc = "ConnectionError"
    /\ Len(requests) = 2

-----------------------------------------------------------------------------
(* When update_pr looks up, checked under SpecUpdate *)

\* the requests of the call that are lookups
Lookups == {i \in 1..Len(requests) : IsLookup(i)}

\* the mutation carries the caller's three values as they were given
Verbatim(i) ==
    /\ Variables(i).state = args.pr_state
    /\ Variables(i).title = args.pr_title
    /\ Variables(i).description = args.pr_message

\* the caller gave all three values
AllGiven == GivenArgs = {"pr_state", "pr_title", "pr_message"}

\* C25 as stated: update_pr looks up if and only if one of pr_state, pr_title
\* and pr_message is absent.  With all three given and a state other than
\* "Merged" the mutation is the only request and carries the three values
\* verbatim; with one absent exactly one lookup precedes the mutation.
C25_Original ==
    op = "update_pr" =>
        /\ Lookups # {} => ~AllGiven
        /\ (AllGiven /\ args.pr_state # PyStr("Merged") /\ pc = "done") =>
             /\ Len(requests) = 1
             /\ Mutations = {1} /\ Verbatim(1)
        /\ (~AllGiven /\ GivenArgs # {}) =>
             /\ pc \notin {"start", "lookup"} => Lookups = {1}
             /\ \A i \in Mutations : i = 2

\* C25: update_pr looks up if and only if one of pr_state, pr_title and
\* pr_message is absent or pr_state is "Merged".  With all three given and a
\* state other than "Merged" the mutation is the only request and carries the
\* three values verbatim; otherwise, when the call has an argument at all,
\* exactly one lookup is sent, first, and the mutation follows it.
C25_LookupWhenNeeded ==
    op = "update_pr" =>
        /\ Lookups # {} => (~AllGiven \/ args.pr_state = PyStr("Merged"))
        /\ (AllGiven /\ args.pr_state # PyStr("Merged")) =>
             /\ Lookups = {}
             /\ pc = "done" =>
                  /\ Len(requests) = 1
                  /\ Mutations = {1} /\ Verbatim(1)
        /\ ((~AllGiven \/ args.pr_state = PyStr("Merged")) /\ GivenArgs # {}) =>
             /\ pc \notin {"start", "lookup"} => Lookups = {1}
             /\ \A i \in Mutations : i = 2

\* all three values were given, the state "Merged": the call has looked the
\* pull request up and is about to send the mutation
C25_Witness ==
    /\ op = "update_pr"
    /\ AllGiven
    /\ args.pr_state = PyStr("Merged")
    /\ pc = "update"
    /\ Len(requests) = 1
    /\ IsLookup(1)
    /\ locals.pr_title = args.pr_title

-----------------------------------------------------------------------------
(* A cursor that is no string, checked under SpecPaging *)

\* the page carries a cursor member that is no string
OddCursor(reply) ==
    /\ IsPage(reply)
    /\ PageCursor(reply) # Absent
    /\ PageCursor(reply).type # "str"

\* C26: list_prs looks at the cursor of a page before it yields any entry of
\* the page.  A page whose cursor member is present and is no string makes
\* the generator fail on that page with AttributeError: the consumer holds
\* what the earlier pages gave and nothing of that page, the page is not
\* taken for the last one, and no request follows.
C26_CursorBeforeItems ==
    op = "list_prs" =>
        \A k \in 1..Len(received) :
            OddCursor(received[k]) =>
                /\ k = Len(received) /\ k = Len(requests)
                /\ pc = "failed"
                /\ result.kind = "raise" /\ result.exc = "AttributeError"
                /\ Len(yielded) = DeliveredBy(SubSeq(received, 1, k - 1))
                /\ args.simple => yielded = ItemsOf(SubSeq(received, 1, k - 1))

\* the first page held two entries and a null cursor: the generator failed
\* and the consumer holds nothing
C26_Witness ==
    /\ op = "list_prs"
    /\ args.simple
    /\ Len(received) = 1
    /\ IsPage(received[1])
    /\ PageCursor(received[1]) = PyNone
    /\ PageSize(received[1]) = 2
    /\ pc = "failed"
    /\ result.exc = "AttributeError"
    /\ yielded = <<>>

-----------------------------------------------------------------------------
(* Two generators on one client, checked under SpecSequences *)

\* the cursor of the i-th page the upstream gave generator g
CursorGiven(g, i) ==
    (CHOOSE c \in TokenCursors : received[g][i].response.text = PullsBody(<<Pr1>>, c))

\* the cursor a request carries, if any
CursorSent(request) ==
    IF "pageToken" \in DOMAIN request.json.variables
    THEN request.json.variables.pageToken
    ELSE Absent

\* C27: the cursor of a list_prs generator is its own.  However the two
\* generators on the client are consumed, one running while a request of the
\* other is in flight included, the first request of each carries its own
\* starting cursor or none, and every later request of a generator carries
\* the cursor of the page that generator received just before, never one
\* given to the other generator.
C27_CursorIsLocal ==
    op = "list_prs" =>
        \A g \in Generators :
            /\ Len(requests[g]) >= 1 =>
                 IF args[g].page_token = PyNone
                 THEN CursorSent(requests[g][1]) = Absent
                 ELSE CursorSent(requests[g][1]) = args[g].page_token
            /\ \A i \in 2..Len(requests[g]) :
                 /\ i - 1 <= Len(received[g])
                 /\ CursorSent(requests[g][i]) = CursorGiven(g, i - 1)

\* the upstream gave tok-2 to the first generator and tok-3 to the second,
\* and the requests of both for their second page are in flight at the same
\* time: each request carries the generator's own cursor
C27_Witness ==
    /\ op = "list_prs"
    /\ pc[1] = "in_flight" /\ pc[2] = "in_flight"
    /\ Len(requests[1]) = 2 /\ Len(requests[2]) = 2
    /\ Len(received[1]) = 1 /\ Len(received[2]) = 1
    /\ CursorGiven(1, 1) = PyStr("tok-2")
    /\ CursorGiven(2, 1) = PyStr("tok-3")
    /\ requests[1][1].json.variables.pageToken = PyStr("tok-1")
    /\ requests[1][2].json.variables.pageToken = PyStr("tok-2")
    /\ CursorSent(requests[2][1]) = Absent
    /\ requests[2][2].json.variables.pageToken = PyStr("tok-3")
    /\ Len(yielded[1]) = 1 /\ Len(yielded[2]) = 1

-----------------------------------------------------------------------------
(* The table of pull_pr_diff page after page, checked under SpecPaging *)

\* a table of the page other than the one asked for has a cursor of its own
ForeignCursor(tables) ==
    \E i \in (1..Len(tables)) \ Asked(tables) : ~BlankCursor(tables[i].cursor)

\* C28: pull_pr_diff chooses the table anew on every page and follows only
\* the cursor of that table's row list.  Over pages of the diff, every
\* request after the first carries the cursor of the table asked for on the
\* page before it; a page without that table is the last one, the generator
\* returns on it without an error and without another request, whatever
\* cursors the other tables of the page hold, and the consumer has the rows
\* of the pages before it.
C28_TablePerPage ==
    ( /\ op = "pull_pr_diff" /\ args.simple /\ args.table_name.type = "str"
      /\ \A i \in 1..Len(received) : IsPage(received[i]) ) =>
        /\ \A i \in 1..(Len(received) - 1) :
             /\ Asked(DiffPage(received[i])) # {}
             /\ ~BlankCursor(PageCursor(received[i]))
             /\ requests[i + 1].json.variables.pageToken = PageCursor(received[i])
        /\ \A i \in 1..Len(received) :
             Asked(DiffPage(received[i])) = {} =>
               /\ i = Len(received)
               /\ Len(requests) = i
               /\ pc = "exhausted"
               /\ result = Return(PyNone)
               /\ yielded = ItemsOf(SubSeq(received, 1, i - 1))
        /\ pc = "exhausted" => yielded = ItemsOf(received)

\* the table asked for was the second of the first page, behind a table
\* with a cursor of its own, and is missing from the second page, whose one
\* table has a cursor: the second request carried the cursor of the table
\* asked for, and the generator returned after the row of the first page
C28_Witness ==
    /\ op = "pull_pr_diff" /\ args.simple /\ args.table_name = PyStr(" mytable ")
    /\ Len(received) = 2 /\ Len(requests) = 2
    /\ IsPage(received[1]) /\ IsPage(received[2])
    /\ Asked(DiffPage(received[1])) = {2}
    /\ ForeignCursor(DiffPage(received[1]))
    /\ requests[2].json.variables.pageToken = PyStr("tok-2")
    /\ Asked(DiffPage(received[2])) = {}
    /\ ForeignCursor(DiffPage(received[2]))
    /\ pc = "exhausted" /\ result = Return(PyNone)
    /\ Len(yielded) = 1

-----------------------------------------------------------------------------
(* The two revisions side by side, checked under SpecRevisions *)

\* the upstream answered with a body that json.loads decodes and that is not
\* the unreachable literal
Decodable(reply) ==
    /\ reply.kind = "response"
    /\ ~IsUnreachable(reply.response)
    /\ JsonLoads(reply.response.text).kind = "return"

\* C29: the earlier revision and the packaged one agree on their shared
\* operations.  For the same arguments and the same replies, all of them
\* decodable and none the unreachable literal, the requests of the two
\* revisions are the same one by one, and once both calls have ended they
\* have issued the same requests and ended in the same result or error.
C29_RevisionsAgree ==
    ( /\ op \in {"lookup_pr", "update_pr", "merge_pr", "comment_on_pr", "create_pr"}
      /\ \A i \in 1..Len(received) : Decodable(received[i]) ) =>
        /\ \A i \in 1..Len(received) :
             (i <= Len(requests["earlier"]) /\ i <= Len(requests["packaged"])) =>
               requests["earlier"][i] = requests["packaged"][i]
        /\ (pc["earlier"] = "done" /\ pc["packaged"] = "done") =>
             /\ requests["earlier"] = requests["packaged"]
             /\ result["earlier"] = result["packaged"]

\* both revisions ran an update_pr to "Merged" over the same three decodable
\* replies, the last of them with status 500: both sent the lookup, the
\* mutation and the merge, and both ended in the same APIServerException
C29_Witness ==
    /\ op = "update_pr"
    /\ pc["earlier"] = "done" /\ pc["packaged"] = "done"
    /\ Len(received) = 3
    /\ \A i \in 1..3 : Decodable(received[i])
    /\ Len(requests["earlier"]) = 3 /\ Len(requests["packaged"]) = 3
    /\ received[3].response.status_code = 500
    /\ result["earlier"].kind = "raise" /\ result["earlier"].exc = "APIServerException"
    /\ result["packaged"] = result["earlier"]

-----------------------------------------------------------------------------
(* The credential of the client, checked under SpecConstruct *)

\* the token file given is a regular file of the file system
TokenFileGiven ==
    /\ args.token_file # PyNone
    /\ PathExists(args.token_file.v)
    /\ FileSystem[args.token_file.v].kind = "file"

\* the credential the arguments of the construction stand for
Credential ==
    IF args.token # PyNone THEN args.token.v
    ELSE Strip(FileSystem[args.token_file.v].content)

\* C30: the credential comes from the token when there is one, else from the
\* token file.  With a token and a token file the object is constructed with
\* the token as given, whatever the path is; with a token file alone the
\* object holds the whole content of the file without its leading and
\* trailing whitespace; and every request of the object carries that
\* credential unchanged in its Cookie header.
C30_CredentialSource ==
    (op = "__init__" /\ pc # "new") =>
        /\ (args.token # PyNone /\ args.token_file # PyNone) =>
             /\ pc = "constructed"
             /\ self.token = args.token.v
        /\ (args.token = PyNone /\ TokenFileGiven) =>
             /\ pc = "constructed"
             /\ self.token = Credential
        /\ \A i \in 1..Len(requests) :
             requests[i].headers.Cookie = "dolthubToken=" \o Credential

\* the file of two lines was given alone: the object holds both lines
\* without the final newline and has sent them in the cookie of two requests
C30_Witness ==
    /\ op = "__init__"
    /\ args.token = PyNone
    /\ args.token_file = PyStr("lines.txt")
    /\ pc = "constructed"
    /\ self.token = "file-token\nsecond-line"
    /\ Len(requests) = 2
    /\ \A i \in 1..2 : requests[i].headers.Cookie = "dolthubToken=file-token\nsecond-line"

====
